---- MODULE Spec2Model ----
(***************************************************************************)
(* A state-machine model of node-inspect (src/lib/_inspect.js): the        *)
(* protocol client (request correlation, reset), the debugger session      *)
(* (scripts, breakpoints, call frames, watchers, pause state) and the      *)
(* child / connection lifecycle.                                           *)
(*                                                                         *)
(* Every JavaScript handler runs to completion on one event loop, so one   *)
(* action of the model is one handler together with the promise reactions  *)
(* (microtasks) it makes runnable.  Handlers are written as functions from *)
(* a working record w to a working record, so that a handler that calls    *)
(* another one is a composition, in the order of the source.               *)
(*                                                                         *)
(* The sessions of this model receive whole, valid text or close frames;   *)
(* the bytes of the frames, the codec and the buffer _unprocessed are      *)
(* modelled for the protocol client, further down.                         *)
(***************************************************************************)
EXTENDS Integers, Sequences, FiniteSets, TLC

VARIABLES
  client,     \* the ProtocolClient object: _http, _socket, _lastId, _pending,
              \* _unprocessed
  inspector,  \* the NodeInspector object: paused, repl, child, and the exit
  session,    \* the variables closed over by createRepl, and the REPL object
  tasks,      \* promise chains in flight: run(), the handshake, the views
  env,        \* the world: the transport, the children, the budgets
  ghost       \* history variables, read by the properties only

vars == <<client, inspector, session, tasks, env, ghost>>

(***************************************************************************)
(* Bounds of the exploration.                                              *)
(***************************************************************************)
MaxConn == 2        \* connections opened by the client harness
MaxCalls == 2       \* callMethod invocations of the client harness
MaxFrames == 1      \* frames in one network chunk of the client harness
MaxRuns == 2        \* run() invocations of a session: the first and restarts
MaxFail == 1        \* failed connection attempts the world injects
MaxPauses == 2      \* Debugger.paused events the target sends
MaxCmds == 2        \* lines the user enters
MaxLines == 1       \* lines one history buffer records
MaxRepeats == 2     \* empty lines of the user

\* null and undefined, for values that are objects
Null == [null |-> TRUE]
NoValue == [undefined |-> TRUE]
EmptyObj == [empty |-> TRUE]
EmptyFn == [x \in {} |-> x]

\* A number of JavaScript: an integer, or NaN.
Num(v) == [nan |-> FALSE, v |-> v]
NaN == [nan |-> TRUE, v |-> 0]

Min(S) == CHOOSE x \in S : \A y \in S : x <= y

RECURSIVE Ascending(_)
Ascending(S) == IF S = {} THEN <<>> ELSE <<Min(S)>> \o Ascending(S \ {Min(S)})

RECURSIVE SeqsUpTo(_, _)
SeqsUpTo(S, n) ==
  IF n = 0 THEN {<<>>}
  ELSE LET shorter == SeqsUpTo(S, n - 1)
       IN shorter \cup {Append(q, x) : q \in {r \in shorter : Len(r) = n - 1}, x \in S}

(***************************************************************************)
(* The working record of a handler: the state, the queue mq of promise     *)
(* reactions made runnable, and whether an exception is propagating.  The   *)
(* ghost's emitted is the log of the events emitted in one turn.            *)
(***************************************************************************)
Cur ==
  [c |-> client, i |-> inspector, s |-> session, t |-> tasks, e |-> env,
   g |-> [ghost EXCEPT !.emitted = <<>>, !.dispatched = <<>>], mq |-> <<>>, thrown |-> FALSE]

Commit(w) ==
  /\ client' = w.c
  /\ inspector' = w.i
  /\ session' = w.s
  /\ tasks' = w.t
  /\ env' = w.e
  /\ ghost' = w.g

(***************************************************************************)
(* Strings.  A string is a sequence of characters; the characters that     *)
(* matter here are "/" (the path separator), the characters the faked      *)
(* scriptUrl adds (".", "*", "$") and letters, each letter standing for a  *)
(* file name such as a.js.  The empty string and undefined are both <<>>.  *)
(***************************************************************************)
IsSuffix(x, y) ==
  /\ Len(x) <= Len(y)
  /\ SubSeq(y, Len(y) - Len(x) + 1, Len(y)) = x

\* y.indexOf(x) !== -1
indexOfFound(y, x) ==
  \E i \in 1..(Len(y) - Len(x) + 1) : SubSeq(y, i, i + Len(x) - 1) = x

\* script.replace(/([/\\.?*()^${}|[\]])/g, '\\$1') (line 1016): every
\* character of the strings used here that is special in a regular expression
\* is escaped, so the escaped path matches exactly the text of script.
escapedPath(script) == [literal |-> script]

\* urlRegex = ^(.*[\/\\])?<escapedPath>$ (line 1017): the urls it matches.
urlRegexMatches(urlRegex, url) ==
  LET x == urlRegex.literal
  IN /\ IsSuffix(x, url)
     /\ \/ Len(url) = Len(x)
        \/ url[Len(url) - Len(x)] = "/"

\* the faked scriptUrl .*/<script>$ (line 1026)
fakedScriptUrl(script) == <<".", "*", "/">> \o script \o <<"$">>

(***************************************************************************)
(* The world of the target: its scripts, lines and breakpoint ids.         *)
(***************************************************************************)
UrlA == <<"/", "a">>              \* /a.js
UrlDA == <<"/", "d", "/", "a">>   \* /d/a.js: its text contains /a.js
ScriptIds == {"1", "2"}
ScriptUrl == [id \in ScriptIds |-> IF id = "1" THEN UrlA ELSE UrlDA]
NameA == <<"a">>                  \* the name a user types for a.js
Lines == {1}                      \* 1-based lines a user names
BreakpointIds == {"b1", "b2"}
Exprs == {<<"x">>}                    \* watch expressions
PauseStates == {"none", "uncaught", "all"}
ErrorBodies == {[code |-> "c1", message |-> "m1", data |-> "d1"]}

(***************************************************************************)
(* ProtocolClient                                                          *)
(***************************************************************************)

\* isEmpty(obj) (lines 97-99): Object.keys(obj).length === 0
isEmpty(obj) == obj = EmptyObj

\* unpackError without the data of the error
unpackErrorMessageOnly(error) ==
  [code |-> error.code, message |-> <<error.message>>]

\* unpackError({code, message, data}) (lines 101-106)
unpackError(error) ==
  [code |-> error.code, message |-> <<error.message, " - ", error.data>>]

NotConnected == [message |-> "Use run to start the app again."]

\* Settling the promise of a call.  k is the reaction the caller chained on
\* the promise; a settled promise queues its reaction.  The promises of the
\* client harness are recorded in ghost.futures: n counts the calls of the
\* promise's resolve and reject functions, state and v are the promise's
\* state, which only its first settlement sets.
settlePromise(w, k, ok, v) ==
  LET w1 == IF k.k = "future"
            THEN LET old == w.g.futures[k.f]
                     new == [old EXCEPT
                               !.n = @ + 1,
                               !.state = IF old.state = "pending"
                                         THEN (IF ok THEN "resolved" ELSE "rejected")
                                         ELSE @,
                               !.v = IF old.state = "pending" THEN v ELSE @]
                 IN [w EXCEPT !.g.futures[k.f] = new]
            ELSE w
  IN [w1 EXCEPT !.mq = Append(@, [k |-> k, ok |-> ok, v |-> v])]

\* The handler callMethod stores in _pending (lines 288-291).
pendingHandler(w, k, error, result) ==
  IF error # Null
  THEN settlePromise(w, k, FALSE, unpackError(error))
  ELSE settlePromise(w, k, TRUE, IF isEmpty(result) THEN NoValue ELSE result)

\* Client.reset as a bug would have it: the bytes received stay in the buffer.
resetKeepUnprocessed(w) ==
  [w EXCEPT !.c = [http |-> FALSE, lastId |-> 0, socket |-> FALSE,
                   pending |-> EmptyFn, unprocessed |-> w.c.unprocessed],
            !.e.wire = IF w.c.http /\ @ = "up" THEN "closing" ELSE @]

\* Client.reset as the spec's open question would have it: a call in flight
\* is rejected.
resetRejectsPending(w) ==
  LET futures == {id \in DOMAIN w.c.pending : w.c.pending[id].k.k = "future"}
      w1 == [w EXCEPT !.c = [http |-> FALSE, lastId |-> 0, socket |-> FALSE,
                             pending |-> EmptyFn, unprocessed |-> <<>>],
                      !.e.wire = IF w.c.http /\ @ = "up" THEN "closing" ELSE @]
  IN IF futures = {} THEN w1
     ELSE settlePromise(w1, w.c.pending[Min(futures)].k, FALSE, NotConnected)

\* Client.reset (lines 270-279).  Destroying the request of an upgraded
\* connection closes its socket: the socket's close event is emitted later.
reset(w) ==
  [w EXCEPT !.c = [http |-> FALSE, lastId |-> 0, socket |-> FALSE,
                   pending |-> EmptyFn, unprocessed |-> <<>>],
            !.e.wire = IF w.c.http /\ @ = "up" THEN "closing" ELSE @]

\* Client.callMethod with this._lastId++ in place of ++this._lastId
callMethodPostIncrement(w, m, a, k) ==
  IF ~w.c.socket
  THEN settlePromise(w, k, FALSE, NotConnected)
  ELSE LET id == w.c.lastId
       IN [w EXCEPT !.c.lastId = id + 1,
                    !.c.pending = [j \in DOMAIN @ \cup {id} |->
                                     IF j = id THEN [m |-> m, a |-> a, k |-> k]
                                     ELSE @[j]],
                    !.e.lastState = IF m = "Debugger.setPauseOnExceptions"
                                    THEN a.state ELSE @]

\* Client.callMethod (lines 281-296).  m and a are the method and its
\* params, k the reaction the caller chains on the returned promise.
callMethod(w, m, a, k) ==
  IF ~w.c.socket
  THEN settlePromise(w, k, FALSE, NotConnected)
  ELSE LET id == w.c.lastId + 1
       IN [w EXCEPT !.c.lastId = id,
                    !.c.pending = [j \in DOMAIN @ \cup {id} |->
                                     IF j = id THEN [m |-> m, a |-> a, k |-> k]
                                     ELSE @[j]],
                    !.e.lastState = IF m = "Debugger.setPauseOnExceptions"
                                    THEN a.state ELSE @]

\* The branch if (id) of _handleChunk as a bug would have it: the entry is
\* not deleted.
dispatchResponseKeep(w, f) ==
  IF f.id \in DOMAIN w.c.pending
  THEN pendingHandler(w, w.c.pending[f.id].k, f.error, f.result)
  ELSE w

\* ... and as another bug would have it: the oldest pending call is answered.
dispatchResponseOldest(w, f) ==
  IF w.c.pending # EmptyFn
  THEN LET id == Min(DOMAIN w.c.pending)
           handler == w.c.pending[id]
           w1 == [w EXCEPT !.c.pending = [j \in DOMAIN @ \ {id} |-> @[j]]]
       IN pendingHandler(w1, handler.k, f.error, f.result)
  ELSE w

\* _handleChunk, the branch if (id) (lines 255-260).
dispatchResponse(w, f) ==
  IF f.id \in DOMAIN w.c.pending
  THEN LET handler == w.c.pending[f.id]
           w1 == [w EXCEPT !.c.pending = [j \in DOMAIN @ \ {f.id} |-> @[j]]]
       IN pendingHandler(w1, handler.k, f.error, f.result)
  ELSE w

(***************************************************************************)
(* NodeInspector: the methods the session calls.                           *)
(***************************************************************************)

\* NodeInspector.killChild (lines 1418-1424)
killChild(w) ==
  LET w1 == reset(w)
  IN IF w1.i.child # 0
     THEN [w1 EXCEPT !.e.children = @ \ {w1.i.child}, !.i.child = 0]
     ELSE w1

\* process.exit(code): the exit listener (line 1389) kills the child.
processExit(w, code) ==
  [killChild(w) EXCEPT !.i.exit = code, !.mq = <<>>, !.thrown = FALSE]

\* handleUnexpectedError (lines 1534-1541), the uncaughtException listener
handleUnexpectedError(w) ==
  LET w1 == IF w.i.child # 0
            THEN [w EXCEPT !.e.children = @ \ {w.i.child}]
            ELSE w
  IN processExit(w1, 1)

(***************************************************************************)
(* The session: the functions of createRepl.                               *)
(***************************************************************************)
NoId == ""
Location(scriptId, scriptUrl, lineNumber) ==
  [scriptId |-> scriptId, scriptUrl |-> scriptUrl, lineNumber |-> lineNumber]

\* exitDebugRepl as a bug would have it: the histories are not swapped back
exitDebugReplKeepHistory(w) ==
  [w EXCEPT !.s.replEval = "controlEval",
            !.s.context = "control",
            !.s.prompt = "debug> ",
            !.s.exitDebugRepl = FALSE]

\* exitDebugRepl (lines 1201-1224)
exitDebugRepl(w) ==
  [w EXCEPT !.s.replEval = "controlEval",
            !.s.history.debug = w.s.rliHistory,
            !.s.rliHistory = w.s.history.control,
            !.s.context = "control",
            !.s.prompt = "debug> ",
            !.s.exitDebugRepl = FALSE]

\* resetOnStart as bugs would have it: the frame is kept; the scripts are
\* kept; the state that is to survive a restart is reset too.
resetOnStartKeepFrame(w) ==
  LET w1 == [w EXCEPT !.s.knownScripts = EmptyFn]
  IN IF w1.s.exitDebugRepl THEN exitDebugRepl(w1) ELSE w1

resetOnStartKeepScripts(w) ==
  LET w1 == [w EXCEPT !.s.currentBacktrace = Null, !.s.selectedFrame = Null]
  IN IF w1.s.exitDebugRepl THEN exitDebugRepl(w1) ELSE w1

resetOnStartForgetState(w) ==
  LET w1 == [w EXCEPT !.s.knownScripts = EmptyFn,
                      !.s.currentBacktrace = Null,
                      !.s.selectedFrame = Null,
                      !.s.pauseOnExceptionState = "none"]
  IN IF w1.s.exitDebugRepl THEN exitDebugRepl(w1) ELSE w1

\* resetOnStart as a bug would have it: the callback is forgotten, not called
resetOnStartKeepDebug(w) ==
  [w EXCEPT !.s.knownScripts = EmptyFn,
            !.s.currentBacktrace = Null,
            !.s.selectedFrame = Null,
            !.s.exitDebugRepl = FALSE]

\* resetOnStart (lines 603-610)
resetOnStart(w) ==
  LET w1 == [w EXCEPT !.s.knownScripts = EmptyFn,
                      !.s.currentBacktrace = Null,
                      !.s.selectedFrame = Null]
  IN IF w1.s.exitDebugRepl THEN exitDebugRepl(w1) ELSE w1

\* evalInCurrentContext as a bug would have it: always in the global scope
evalInCurrentContextGlobal(w, code, k) ==
  callMethod(w, "Runtime.evaluate", [expression |-> code], k)

\* evalInCurrentContext (lines 790-812), for code other than .scope
evalInCurrentContext(w, code, k) ==
  IF w.s.selectedFrame # Null
  THEN callMethod(w, "Debugger.evaluateOnCallFrame",
                  [callFrameId |-> w.s.selectedFrame.callFrameId,
                   expression |-> code], k)
  ELSE callMethod(w, "Runtime.evaluate", [expression |-> code], k)

\* getSourceSnippet (lines 718-723)
getSourceSnippet(w, location, k) ==
  callMethod(w, "Debugger.getScriptSource", [scriptId |-> location.scriptId], k)

\* The identity of a new breakpoint object: one no entry of the list and no
\* clearBreakpoint in flight refers to.
FreshOid(w) ==
  LET inList == {w.s.knownBreakpoints[i].oid : i \in 1..Len(w.s.knownBreakpoints)}
      inCalls == {w.c.pending[id].k.oid :
                    id \in {j \in DOMAIN w.c.pending : w.c.pending[j].k.k = "removeBreakpoint"}}
      inJobs == {w.mq[i].k.oid :
                    i \in {j \in 1..Len(w.mq) : w.mq[j].k.k = "removeBreakpoint"}}
      used == inList \cup inCalls \cup inJobs
  IN Min((1..(Cardinality(used) + 1)) \ used)

\* handleBreakpointResolved as a bug would have it: an existing entry is not
\* looked up.
handleBreakpointResolvedPush(w, breakpointId, loc) ==
  [w EXCEPT !.s.knownBreakpoints =
              Append(@, [oid |-> FreshOid(w), breakpointId |-> breakpointId,
                         location |-> loc])]

\* handleBreakpointResolved (lines 897-913)
handleBreakpointResolved(w, breakpointId, loc) ==
  LET known == loc.scriptId \in DOMAIN w.s.knownScripts
      scriptUrl == IF known THEN w.s.knownScripts[loc.scriptId].url ELSE <<>>
      location == IF scriptUrl # <<>> THEN [loc EXCEPT !.scriptUrl = scriptUrl] ELSE loc
      bps == w.s.knownBreakpoints
      hits == {i \in 1..Len(bps) : bps[i].breakpointId = breakpointId}
  IN IF hits # {}
     THEN [w EXCEPT !.s.knownBreakpoints[Min(hits)].location = location]
     ELSE [w EXCEPT !.s.knownBreakpoints =
                      Append(@, [oid |-> FreshOid(w), breakpointId |-> breakpointId,
                                 location |-> location])]

\* registerBreakpoint (lines 934-942), the reaction to a setBreakpoint result
registerBreakpoint(w, silent, bp) ==
  LET w1 == handleBreakpointResolved(w, bp.breakpointId, bp.actualLocation)
  IN IF bp.actualLocation.scriptId # NoId
     THEN IF ~silent
          THEN getSourceSnippet(w1, bp.actualLocation, [k |-> "none"])
          ELSE w1
     ELSE w1   \* prints: Warning: script was not loaded yet.

Undefined == [t |-> "undefined"]
Number(n) == [t |-> "number", n |-> n]
String(x) == [t |-> "string", x |-> x]

\* print, and the error the REPL prints when the evaluation of a command
\* throws (lines 821-832): the text is kept as the last output of the command
printed(w, text) == [w EXCEPT !.g.out = text]

\* setBreakpoint as the spec has it: the name is matched against the urls
\* only, never against the ids of the scripts
setBreakpointByUrlOnly(w, script, line, silent) ==
  LET matches == {id \in DOMAIN w.s.knownScripts :
                    /\ w.s.knownScripts[id].url # <<>>
                    /\ indexOfFound(w.s.knownScripts[id].url, script.x)}
  IN IF Cardinality(matches) > 1 \/ line.n <= 0 THEN w
     ELSE IF matches # {}
     THEN callMethod(w, "Debugger.setBreakpoint",
                     [location |-> Location(CHOOSE id \in matches : TRUE,
                                            <<>>, line.n - 1)],
                     [k |-> "setBreakpoint", silent |-> silent])
     ELSE callMethod(w, "Debugger.setBreakpointByUrl",
                     [urlRegex |-> escapedPath(script.x),
                      lineNumber |-> line.n - 1],
                     [k |-> "setBreakpointByUrl", script |-> script.x,
                      line |-> line.n, silent |-> silent])

\* the text of a script id; the ids of this model are one character long
idText(id) == <<id>>

\* setBreakpoint (lines 933-1033) but for the form 'fn()'.  A name that is
\* the id of a known script selects that script (lines 987-988); the for
\* loop over the urls (lines 990-998) leaves the last match in scriptId, and
\* it is not used when the name is ambiguous.  An exception thrown here is
\* caught by the evaluator of the command (lines 821-832): nothing changes.
setBreakpoint(w, script, line, silent) ==
  IF script.t = "undefined"
  THEN IF w.s.selectedFrame = Null
       THEN printed(w, "Requires execution to be paused")   \* getCurrentLocation throws
       ELSE callMethod(w, "Debugger.setBreakpoint",
                       [location |-> w.s.selectedFrame.location],
                       [k |-> "setBreakpoint", silent |-> silent])
  ELSE IF line = Undefined /\ script.t = "number"
  THEN IF w.s.selectedFrame = Null
       THEN printed(w, "Requires execution to be paused")   \* getCurrentLocation throws
       ELSE callMethod(w, "Debugger.setBreakpoint",
                       [location |-> Location(w.s.selectedFrame.location.scriptId,
                                              <<>>, script.n - 1)],
                       [k |-> "setBreakpoint", silent |-> silent])
  ELSE IF script.t # "string"
  THEN printed(w, "setBreakpoint() expects a string")   \* throws TypeError
  ELSE LET isId == {id \in DOMAIN w.s.knownScripts : idText(id) = script.x}
           matches == IF isId # {} THEN isId
                      ELSE {id \in DOMAIN w.s.knownScripts :
                              /\ w.s.knownScripts[id].url # <<>>
                              /\ indexOfFound(w.s.knownScripts[id].url, script.x)}
           ambiguous == Cardinality(matches) > 1
       IN IF ambiguous
          THEN printed(w, "Script name is ambiguous")
          ELSE IF line.n <= 0
          THEN printed(w, "Line should be a positive value")
          ELSE IF matches # {}
          THEN callMethod(w, "Debugger.setBreakpoint",
                          [location |-> Location(CHOOSE id \in matches : TRUE,
                                                 <<>>, line.n - 1)],
                          [k |-> "setBreakpoint", silent |-> silent])
          ELSE callMethod(w, "Debugger.setBreakpointByUrl",
                          [urlRegex |-> escapedPath(script.x),
                           lineNumber |-> line.n - 1],
                          [k |-> "setBreakpointByUrl", script |-> script.x,
                           line |-> line.n, silent |-> silent])

\* The reaction to a setBreakpointByUrl result (lines 1021-1032): the result
\* has no location, so the location is faked.
setBreakpointByUrlThen(w, k, bp) ==
  registerBreakpoint(w, k.silent,
    [breakpointId |-> bp.breakpointId,
     actualLocation |-> Location(NoId, fakedScriptUrl(k.script), k.line - 1)])

\* clearBreakpoint with the entry removed at once, before the answer
clearBreakpointAtOnce(w, url, line) ==
  LET bps == w.s.knownBreakpoints
      found == {i \in 1..Len(bps) :
                  /\ bps[i].location.scriptId \in DOMAIN w.s.knownScripts
                  /\ indexOfFound(w.s.knownScripts[bps[i].location.scriptId].url, url)
                  /\ bps[i].location.lineNumber + 1 = line}
  IN IF found = {}
     THEN printed(w, "Could not find breakpoint")
     ELSE callMethod([w EXCEPT !.s.knownBreakpoints =
                        SubSeq(bps, 1, Min(found) - 1)
                          \o SubSeq(bps, Min(found) + 1, Len(bps))],
                     "Debugger.removeBreakpoint",
                     [breakpointId |-> bps[Min(found)].breakpointId],
                     [k |-> "removeBreakpoint", oid |-> bps[Min(found)].oid])

\* clearBreakpoint (lines 1035-1053)
clearBreakpoint(w, url, line) ==
  LET bps == w.s.knownBreakpoints
      found == {i \in 1..Len(bps) :
                  /\ bps[i].location.scriptId \in DOMAIN w.s.knownScripts
                  /\ indexOfFound(w.s.knownScripts[bps[i].location.scriptId].url, url)
                  /\ bps[i].location.lineNumber + 1 = line}
  IN IF found = {}
     THEN printed(w, "Could not find breakpoint")
     ELSE callMethod(w, "Debugger.removeBreakpoint",
                     [breakpointId |-> bps[Min(found)].breakpointId],
                     [k |-> "removeBreakpoint", oid |-> bps[Min(found)].oid])

\* The reaction to a removeBreakpoint result (lines 1049-1052):
\* splice(indexOf(breakpoint), 1), and splice(-1, 1) removes the last entry.
removeBreakpointThen(w, k) ==
  LET bps == w.s.knownBreakpoints
      at == {i \in 1..Len(bps) : bps[i].oid = k.oid}
      idx == IF at = {} THEN Len(bps) ELSE Min(at)
  IN IF bps = <<>> THEN w
     ELSE [w EXCEPT !.s.knownBreakpoints =
                      SubSeq(bps, 1, idx - 1) \o SubSeq(bps, idx + 1, Len(bps))]

RECURSIVE restoreEach(_, _)
restoreEach(w, last) ==
  IF last = <<>> THEN w
  ELSE LET location == Head(last).location
       IN IF location.scriptUrl # <<>>
          THEN restoreEach(setBreakpoint(w, String(location.scriptUrl),
                                         Number(location.lineNumber + 1), FALSE),
                           Tail(last))
          ELSE restoreEach(w, Tail(last))

\* restoreBreakpoints (lines 1055-1066)
restoreBreakpoints(w) ==
  restoreEach([w EXCEPT !.s.knownBreakpoints = <<>>], w.s.knownBreakpoints)

\* setPauseOnExceptions (lines 1068-1073)
setPauseOnExceptions(w, state) ==
  callMethod(w, "Debugger.setPauseOnExceptions", [state |-> state],
             [k |-> "setPauseOnExceptions", state |-> state])

\* handleResumed (lines 1096-1099)
handleResumed(w) ==
  [w EXCEPT !.s.currentBacktrace = Null, !.s.selectedFrame = Null]

\* What a watcher that could not be evaluated is shown as (line 859)
placeholder(error) == <<"<", error.message, ">">>

\* inspectValue (lines 857-859) over watchedExpressions (line 862): the
\* evaluation of the idx-th expression settles the idx-th value of the
\* Promise.all numbered p.
RECURSIVE inspectValues(_, _, _, _)
inspectValues(w, exprs, p, idx) ==
  IF exprs = <<>> THEN w
  ELSE inspectValues(evalInCurrentContext(w, Head(exprs),
                                          [k |-> "watcher", p |-> p, idx |-> idx]),
                     Tail(exprs), p, idx + 1)

\* formatWatchers (lines 855-861), up to the Promise.all.  then is the
\* reaction the caller chains on the returned promise.
formatWatchers(w, then) ==
  LET exprs == w.s.watchedExpressions
      p == Min((1..(Cardinality(DOMAIN w.t.formats) + 1)) \ DOMAIN w.t.formats)
      entry == [left |-> Len(exprs),
                values |-> [i \in 1..Len(exprs) |-> Undefined],
                then |-> then]
  IN IF exprs = <<>>
     THEN settlePromise(w, then, TRUE, <<>>)
     ELSE inspectValues([w EXCEPT !.t.formats = [x \in DOMAIN @ \cup {p} |->
                                                   IF x = p THEN entry ELSE @[x]]],
                        exprs, p, 1)

\* The lines of formatWatchers (lines 863-873): one per watched expression,
\* with its index and the value at that index.
watcherLines(exprs, values) ==
  [i \in 1..Len(exprs) |->
     [idx |-> i - 1, expr |-> exprs[i],
      value |-> IF i <= Len(values) THEN values[i] ELSE Undefined]]

\* formatWatchers as a bug would have it: a watcher that cannot be evaluated
\* rejects the whole list.
formatWatchersThenReject(w, k, job) ==
  IF k.p \notin DOMAIN w.t.formats THEN w
  ELSE LET f == w.t.formats[k.p]
           value == IF job.ok THEN [t |-> "object", v |-> job.v]
                    ELSE String(placeholder(job.v))
           values == [f.values EXCEPT ![k.idx] = value]
           rest == [x \in DOMAIN w.t.formats \ {k.p} |-> w.t.formats[x]]
       IN IF ~job.ok
          THEN settlePromise([w EXCEPT !.t.formats = rest], f.then, FALSE, job.v)
          ELSE IF f.left > 1
          THEN [w EXCEPT !.t.formats[k.p] = [f EXCEPT !.left = @ - 1, !.values = values]]
          ELSE LET lines == watcherLines(w.s.watchedExpressions, values)
               IN settlePromise([w EXCEPT !.t.formats = rest, !.g.watchers = [then |-> f.then.k, lines |-> lines]],
                                f.then, TRUE, lines)

\* formatWatchers (lines 857-881), once an evaluation has settled: a
\* rejection is caught into the placeholder, and the last value to settle
\* resolves the Promise.all, whose lines are made of the list as it is then.
formatWatchersThen(w, k, job) ==
  IF k.p \notin DOMAIN w.t.formats THEN w
  ELSE LET f == w.t.formats[k.p]
           value == IF job.ok THEN [t |-> "object", v |-> job.v]
                    ELSE String(placeholder(job.v))
           values == [f.values EXCEPT ![k.idx] = value]
           rest == [x \in DOMAIN w.t.formats \ {k.p} |-> w.t.formats[x]]
       IN IF f.left > 1
          THEN [w EXCEPT !.t.formats[k.p] = [f EXCEPT !.left = @ - 1, !.values = values]]
          ELSE LET lines == watcherLines(w.s.watchedExpressions, values)
               IN settlePromise([w EXCEPT !.t.formats = rest, !.g.watchers = [then |-> f.then.k, lines |-> lines]],
                                f.then, TRUE, lines)

\* The function the paused listener suspends the REPL for (lines 1087-1093):
\* the Promise.all of formatWatchers(true) (lines 855-882) and of
\* selectedFrame.list(2), which asks for the source.  view counts the
\* promises the Promise.all of this view still waits for.
onPauseView(w, v) ==
  LET w1 == [w EXCEPT !.t.views = [x \in DOMAIN @ \cup {v} |->
                                     IF x = v THEN 2 ELSE @[x]]]
      w2 == formatWatchers(w1, [k |-> "view", v |-> v, list |-> FALSE])
  IN getSourceSnippet(w2, w.s.selectedFrame.location,
                      [k |-> "view", v |-> v, list |-> TRUE])

\* NodeInspector.suspendReplWhile (lines 1404-1409), up to the call of fn:
\* this.repl is undefined until the first run() has resolved.
suspendReplWhile(w) ==
  IF ~w.i.repl
  THEN [w EXCEPT !.thrown = TRUE]
  ELSE onPauseView([w EXCEPT !.i.rliPaused = TRUE, !.i.stdinPaused = TRUE,
                             !.i.paused = TRUE],
                   Min((1..(Cardinality(DOMAIN w.t.views) + 1)) \ DOMAIN w.t.views))

\* suspendReplWhile once fn() has settled, with a flag that stays set
suspendReplWhileThenKeepPaused(w, k, ok) ==
  IF k.v \notin DOMAIN w.t.views THEN w
  ELSE IF ~ok
  THEN [w EXCEPT !.t.views = [x \in DOMAIN @ \ {k.v} |-> @[x]], !.thrown = TRUE]
  ELSE IF w.t.views[k.v] > 1
  THEN [w EXCEPT !.t.views[k.v] = @ - 1]
  ELSE [w EXCEPT !.t.views = [x \in DOMAIN @ \ {k.v} |-> @[x]],
                 !.i.rliPaused = FALSE, !.i.stdinPaused = FALSE]

\* NodeInspector.suspendReplWhile (lines 1410-1415), once fn() has settled:
\* the view of a suspension is over when its last promise is, and a source
\* that cannot be listed rejects it, which is thrown on the next tick.
suspendReplWhileThen(w, k, ok) ==
  IF k.v \notin DOMAIN w.t.views THEN w
  ELSE IF ~ok
  THEN [w EXCEPT !.t.views = [x \in DOMAIN @ \ {k.v} |-> @[x]], !.thrown = TRUE]
  ELSE IF w.t.views[k.v] > 1
  THEN [w EXCEPT !.t.views[k.v] = @ - 1]
  ELSE [w EXCEPT !.t.views = [x \in DOMAIN @ \ {k.v} |-> @[x]],
                 !.i.paused = FALSE, !.i.rliPaused = FALSE, !.i.stdinPaused = FALSE]

\* The listener of Debugger.paused (lines 1075-1094)
onPaused(w, params) ==
  suspendReplWhile([w EXCEPT !.s.currentBacktrace = [frames |-> params.callFrames],
                             !.s.selectedFrame = params.callFrames[1]])

\* The listener of Debugger.scriptParsed (lines 1105-1112)
onScriptParsed(w, script) ==
  IF script.url # <<>>
  THEN [w EXCEPT !.s.knownScripts = [id \in DOMAIN @ \cup {script.scriptId} |->
                                       IF id = script.scriptId
                                       THEN [url |-> script.url]
                                       ELSE @[id]]]
  ELSE w

\* The listener of the client's close (lines 1294-1296), there once the REPL is
onClose(w) == IF w.i.repl THEN resetOnStart(w) ELSE w

\* The listener of ready as a bug would have it: the cached state is not sent.
onReadyRestoreOnly(w) == IF w.i.repl THEN restoreBreakpoints(w) ELSE w

\* The listener of the client's ready (lines 1298-1301), there once the REPL is
onReady(w) ==
  IF w.i.repl
  THEN callMethod(restoreBreakpoints(w), "Debugger.setPauseOnExceptions",
                  [state |-> w.s.pauseOnExceptionState], [k |-> "none"])
  ELSE w

\* The listeners the session registers on the Debugger agent (lines
\* 1075-1112); no one listens on the Runtime agent
agentEmit(w, fullName, params) ==
  CASE fullName = "Debugger.paused" -> onPaused(w, params)
    [] fullName = "Debugger.resumed" -> handleResumed(w)
    [] fullName = "Debugger.breakpointResolved" ->
         handleBreakpointResolved(w, params.breakpointId, params.location)
    [] fullName = "Debugger.scriptParsed" -> onScriptParsed(w, params)
    [] OTHER -> w

\* fullName.split('.') (line 1380) of the names of this model
split(fullName) ==
  CASE fullName = "Debugger.paused" -> <<"Debugger", "paused">>
    [] fullName = "Debugger.resumed" -> <<"Debugger", "resumed">>
    [] fullName = "Debugger.breakpointResolved" -> <<"Debugger", "breakpointResolved">>
    [] fullName = "Debugger.scriptParsed" -> <<"Debugger", "scriptParsed">>
    [] fullName = "Runtime.executionContextCreated" ->
         <<"Runtime", "executionContextCreated">>
    [] fullName = "Profiler.consoleProfileStarted" ->
         <<"Profiler", "consoleProfileStarted">>
    [] fullName = "options.changed" -> <<"options", "changed">>
    [] OTHER -> <<fullName, "">>

\* this.domainNames (line 1375): the agents
domainNames == {"Debugger", "Runtime"}

\* The properties of the inspector that are no agents and have no emit: the
\* fields the constructor sets (lines 1356-1379) and the methods of the class
withoutEmit ==
  {"options", "paused", "domainNames", "handleDebugEvent", "_runScript",
   "suspendReplWhile", "killChild", "run", "print", "childPrint"}

\* NodeInspector.handleDebugEvent (lines 1379-1384): 'domain in this' holds
\* for an agent and for any other property of the inspector; this[domain].emit
\* of a property that has no emit is a TypeError
handleDebugEvent(w, fullName, params) ==
  LET domain == split(fullName)[1]
      name == split(fullName)[2]
  IN IF domain \in domainNames
     THEN agentEmit([w EXCEPT !.g.emitted =
                       Append(@, [on |-> domain, event |-> name, arg |-> fullName])],
                    fullName, params)
     ELSE IF domain \in withoutEmit
     THEN [w EXCEPT !.thrown = TRUE,
                    !.g.error = "this[domain].emit is not a function"]
     ELSE w

(***************************************************************************)
(* The connection and the run() chain.                                     *)
(***************************************************************************)
MaxAttempts == 10

\* The methods of the bootstrap, in the order of lines 384-391.
BootstrapCalls ==
  << [m |-> "Runtime.enable", a |-> EmptyObj],
     [m |-> "Debugger.enable", a |-> EmptyObj],
     [m |-> "Debugger.setPauseOnExceptions", a |-> [state |-> "none"]],
     [m |-> "Debugger.setAsyncCallStackDepth", a |-> [maxDepth |-> 0]],
     [m |-> "Profiler.enable", a |-> EmptyObj],
     [m |-> "Profiler.setSamplingInterval", a |-> [interval |-> 100]],
     [m |-> "Debugger.setBlackboxPatterns", a |-> [patterns |-> <<>>]],
     [m |-> "Runtime.runIfWaitingForDebugger", a |-> EmptyObj] >>

RECURSIVE callEach(_, _, _)
callEach(w, calls, k) ==
  IF calls = <<>> THEN w
  ELSE callEach(callMethod(w, Head(calls).m, Head(calls).a, k), Tail(calls), k)

\* Client._connectWebsocket (lines 344-406), up to the request being sent
connectWebsocket(w) == [reset(w) EXCEPT !.c.http = TRUE]

\* handshakeListener (lines 373-397): the upgrade of the connection
handshakeListener(w) ==
  LET w1 == [w EXCEPT !.c.socket = TRUE,
                      !.e.wire = "up",
                      !.e.target = "waiting",
                      !.e.lastState = "",
                      !.t.boot = [left |-> Len(BootstrapCalls), settled |-> FALSE],
                      !.g.conn = @ + 1,
                      !.g.announcedBefore = w.g.announced,
                      !.g.announced = EmptyFn,
                      !.g.ready = FALSE,
                      !.g.emits = [ready |-> 0, error |-> 0],
                      !.g.answered = [ok |-> 0, err |-> FALSE]]
  IN callEach(w1, BootstrapCalls, [k |-> "boot"])

Job(kind) == [k |-> [k |-> kind], ok |-> TRUE, v |-> NoValue]

\* The reactions of the bootstrap's Promise.all as a bug would have it: a
\* call that is rejected counts as one that has resolved.
bootstrapThenIgnoreError(w, ok) ==
  IF w.t.boot.settled THEN w
  ELSE IF w.t.boot.left > 1
  THEN [w EXCEPT !.t.boot.left = @ - 1]
  ELSE [w EXCEPT !.t.boot = [left |-> 0, settled |-> TRUE],
                 !.mq = Append(@, [k |-> [k |-> "ready"], ok |-> TRUE, v |-> NoValue])]

\* The reactions of the bootstrap's Promise.all (lines 392-396): ready once
\* every call has resolved, error with the first that is rejected.
bootstrapThen(w, ok) ==
  IF w.t.boot.settled THEN w
  ELSE IF ~ok
  THEN [w EXCEPT !.t.boot.settled = TRUE, !.mq = Append(@, Job("error"))]
  ELSE IF w.t.boot.left > 1
  THEN [w EXCEPT !.t.boot.left = @ - 1]
  ELSE [w EXCEPT !.t.boot = [left |-> 0, settled |-> TRUE],
                 !.mq = Append(@, Job("ready"))]

\* The reaction of the constructor to the first run() (lines 1394-1400):
\* startRepl (lines 1276-1304) makes the REPL and registers the listeners of
\* close and ready.  The run and restart verbs chain nothing on run().
runThen(w) ==
  IF ~w.i.repl
  THEN [w EXCEPT !.i.repl = TRUE, !.i.paused = FALSE]
  ELSE w

\* emit('ready'): the listener of the session (line 1298), then the one of
\* _connectWebsocket (line 401), which resolves connect() and so run().
emitReady(w) ==
  LET w0 == onReady(w)
      sent == {id \in DOMAIN w0.c.pending :
                 /\ id > w.c.lastId
                 /\ w0.c.pending[id].m \in {"Debugger.setBreakpoint",
                                            "Debugger.setBreakpointByUrl"}}
      w1 == [w0 EXCEPT !.g.ready = TRUE,
                       !.g.emits.ready = @ + 1,
                       !.g.restore =
                         IF w.i.repl
                         THEN [before |-> w.s.knownBreakpoints,
                               issued |-> [i \in 1..Cardinality(sent) |->
                                  [m |-> w0.c.pending[Ascending(sent)[i]].m,
                                   a |-> w0.c.pending[Ascending(sent)[i]].a]]]
                         ELSE @]
  IN IF w1.t.run.phase = "boot"
     THEN runThen([w1 EXCEPT !.t.run.phase = "done",
                             !.g.tries[Len(w1.g.tries)] = "ok"])
     ELSE w1

\* The rejection handler of attemptConnect as a bug would have it: one
\* attempt too many.
connectFailedLate(w) ==
  IF w.t.run.phase \notin {"fetch", "upgrade", "boot"} THEN w
  ELSE LET w1 == [w EXCEPT !.g.tries[Len(w.g.tries)] = "failed"]
       IN IF w1.t.run.attempts > MaxAttempts
          THEN processExit([w1 EXCEPT !.g.gaveUp = TRUE], 1)
          ELSE [w1 EXCEPT !.t.run.phase = "wait"]

\* The rejection handler of attemptConnect (lines 1439-1449); gaveUp says
\* that ' failed to connect, please retry' was written.
connectFailed(w) ==
  IF w.t.run.phase \notin {"fetch", "upgrade", "boot"} THEN w
  ELSE LET w1 == [w EXCEPT !.g.tries[Len(w.g.tries)] = "failed"]
       IN IF w1.t.run.attempts >= MaxAttempts
          THEN processExit([w1 EXCEPT !.g.gaveUp = TRUE], 1)
          ELSE [w1 EXCEPT !.t.run.phase = "wait"]

\* emit('error'): the listener of _connectWebsocket (line 400) rejects
\* connect().
emitError(w) == connectFailed([w EXCEPT !.g.emits.error = @ + 1])

\* attemptConnect (lines 1432-1436): one more attempt, which fetches /json
attemptConnect(w) ==
  [w EXCEPT !.t.run.attempts = @ + 1, !.t.run.phase = "fetch",
            !.g.tries = Append(@, "pending")]

\* NodeInspector.run (lines 1426-1428) and runScript (lines 1307-1318): the
\* child is spawned at once, and is this.child only once it has printed where
\* it listens.
run(w) ==
  LET w1 == killChild(w)
      child == w1.e.spawned + 1
  IN [w1 EXCEPT !.e.spawned = child,
                !.e.children = @ \cup {child},
                !.t.run = [phase |-> "spawn", child |-> child, attempts |-> 0],
                !.g.tries = <<>>]

\* The reaction of run() to the child of runScript (lines 1428-1455)
runScriptThen(w) ==
  attemptConnect([w EXCEPT !.i.child = w.t.run.child])

\* NodeInspector.childPrint (lines 1472-1486); waiting says whether the text
\* ends with 'Waiting for the debugger to disconnect...'
childPrint(w, waiting) ==
  LET w1 == [w EXCEPT !.g.redraw = ~w.i.paused]
  IN IF ~w.i.paused /\ ~w.i.repl
     THEN [w1 EXCEPT !.thrown = TRUE]
     ELSE IF waiting THEN killChild(w1) ELSE w1

(***************************************************************************)
(* Frames, and the reactions of the promises.                              *)
(***************************************************************************)
Response(id, error, result) ==
  [t |-> "response", id |-> id, error |-> error, result |-> result]
Event(method, params) == [t |-> "event", method |-> method, params |-> params]
CloseFrame == [t |-> "close"]

\* Client._handleChunk (lines 223-268) on a chunk of whole frames
RECURSIVE handleChunk(_, _)
handleChunk(w, frames) ==
  IF frames = <<>> \/ w.thrown THEN w
  ELSE LET f == Head(frames)
       IN IF f.t = "close" THEN reset(w)
          ELSE IF f.t = "response"
          THEN handleChunk(dispatchResponse(w, f), Tail(frames))
          ELSE handleChunk(handleDebugEvent(w, f.method, f.params), Tail(frames))

\* The reaction chained on a promise, by the kind of its continuation
runJob(w, job) ==
  LET k == job.k
  IN CASE k.k = "boot" -> bootstrapThen(w, job.ok)
       [] k.k = "ready" -> emitReady(w)
       [] k.k = "error" -> emitError(w)
       [] k.k = "view" -> suspendReplWhileThen(w, k, job.ok)
       [] k.k = "watcher" -> formatWatchersThen(w, k, job)
       [] k.k = "print" -> printed(w, "watchers")
       [] k.k = "setBreakpoint" ->
            IF job.ok THEN registerBreakpoint(w, k.silent, job.v) ELSE w
       [] k.k = "setBreakpointByUrl" ->
            IF job.ok THEN setBreakpointByUrlThen(w, k, job.v) ELSE w
       [] k.k = "removeBreakpoint" ->
            IF job.ok THEN removeBreakpointThen(w, k) ELSE w
       [] k.k = "setPauseOnExceptions" ->
            IF job.ok THEN [w EXCEPT !.s.pauseOnExceptionState = k.state] ELSE w
       [] OTHER -> w

\* The microtask queue is drained after every handler; an exception no one
\* catches ends the process (lines 1534-1541).
RECURSIVE drain(_)
drain(w) ==
  IF w.i.exit # -1 THEN w
  ELSE IF w.thrown THEN handleUnexpectedError(w)
  ELSE IF w.mq = <<>> THEN w
  ELSE drain(runJob([w EXCEPT !.mq = Tail(@)], Head(w.mq)))

\* One turn of the event loop: a handler, then its microtasks
Turn(w, label) == Commit([drain(w) EXCEPT !.g.last = label])

(***************************************************************************)
(* The REPL: a line of the user, in control mode and in debug mode.        *)
(***************************************************************************)
Line(c) == [c |-> c, x |-> <<>>, n |-> 0, state |-> ""]
LineOf(c, x, n) == [c |-> c, x |-> x, n |-> n, state |-> ""]
LineState(c, state) == [c |-> c, x |-> <<>>, n |-> 0, state |-> state]
\* a call with one argument, a number: setBreakpoint(n)
LineNumber(c, n) == [c |-> c, x |-> <<>>, n |-> n, state |-> "number"]

\* readline records the line in the history it holds, the newest first, and
\* keeps historySize lines (here MaxLines).
rliRecord(w, line) ==
  LET old == w.s.arrays[w.s.rliHistory]
      new == IF old # <<>> /\ Head(old) = line THEN old ELSE <<line>> \o old
  IN [w EXCEPT !.s.arrays[w.s.rliHistory] =
                 IF Len(new) > MaxLines THEN SubSeq(new, 1, MaxLines) ELSE new]

\* the line '\n', and the line 'exec <text>' as it is typed
EmptyLine == Line("")
LineBare(c, text) == [c |-> c, x |-> text, n |-> 0, state |-> "bare"]
\* a call whose argument is written as a string literal: exec("...")
LineLiteral(c, literal) == [c |-> c, x |-> literal, n |-> 0, state |-> "literal"]

DQ == "\""
BS == "\\"

\* JSON.stringify of a string (line 783): the quote and the backslash are
\* escaped and the whole is put between quotes
RECURSIVE escaped(_)
escaped(text) ==
  IF text = <<>> THEN <<>>
  ELSE (IF Head(text) \in {DQ, BS} THEN <<BS, Head(text)>> ELSE <<Head(text)>>)
         \o escaped(Tail(text))

JSONstringify(text) == <<DQ>> \o escaped(text) \o <<DQ>>

\* the value of a string literal as vm.runInContext evaluates it (line 822):
\* the quotes go, and a backslash stands for the character after it
RECURSIVE unescaped(_)
unescaped(chars) ==
  IF chars = <<>> THEN <<>>
  ELSE IF Head(chars) = BS /\ Len(chars) >= 2
  THEN <<chars[2]>> \o unescaped(Tail(Tail(chars)))
  ELSE <<Head(chars)>> \o unescaped(Tail(chars))

stringLiteralValue(literal) == unescaped(SubSeq(literal, 2, Len(literal) - 1))

\* prepareControlCode as a bug would have it: exec <text> is kept as typed
prepareControlCodeAsTyped(w, input) ==
  IF input = EmptyLine THEN w ELSE [w EXCEPT !.s.lastCommand = input]

\* prepareControlCode (lines 778-788); the code is lastCommand afterwards
prepareControlCode(w, input) ==
  IF input = EmptyLine THEN w
  ELSE IF input.c = "exec" /\ input.state = "bare"
  THEN [w EXCEPT !.s.lastCommand = LineLiteral("exec", JSONstringify(input.x))]
  ELSE [w EXCEPT !.s.lastCommand = input]

ResumeVerbs == {"cont", "next", "step", "out"}
ResumeMethod(c) ==
  CASE c = "cont" -> "Debugger.resume"
    [] c = "next" -> "Debugger.stepOver"
    [] c = "step" -> "Debugger.stepInto"
    [] c = "out" -> "Debugger.stepOut"

\* The getter of repl (lines 1194-1244): debug mode is entered
enterDebugRepl(w) ==
  [w EXCEPT !.s.exitDebugRepl = TRUE,
            !.s.replEval = "debugEval",
            !.s.context = "debug",
            !.s.history.control = w.s.rliHistory,
            !.s.rliHistory = w.s.history.debug,
            !.s.prompt = "> "]

\* The digits of a string, and +expr (line 1191) of a number and of the
\* strings used here: the empty string is 0, a run of digits with or without
\* a minus sign is its value, any other text is NaN
DigitChars == <<"0", "1", "2", "3", "4", "5", "6", "7", "8", "9">>
IsDigits(x) == x # <<>> /\ \A i \in 1..Len(x) : \E d \in 1..10 : DigitChars[d] = x[i]
RECURSIVE digitsValue(_)
digitsValue(x) ==
  IF x = <<>> THEN 0
  ELSE digitsValue(SubSeq(x, 1, Len(x) - 1)) * 10
         + (CHOOSE d \in 1..10 : DigitChars[d] = x[Len(x)]) - 1

toNumber(expr) ==
  IF expr.t = "number" THEN Num(expr.n)
  ELSE IF expr.x = <<>> THEN Num(0)
  ELSE IF IsDigits(expr.x) THEN Num(digitsValue(expr.x))
  ELSE IF Head(expr.x) = "-" /\ IsDigits(Tail(expr.x))
  THEN Num(0 - digitsValue(Tail(expr.x)))
  ELSE NaN

\* Array.prototype.splice(start, 1): NaN counts as 0, a negative start
\* counts from the end, and nothing is removed beyond the end
spliceOne(array, start) ==
  LET len == Len(array)
      actualStart == IF start.nan THEN 0
                     ELSE IF start.v < 0
                     THEN (IF len + start.v > 0 THEN len + start.v ELSE 0)
                     ELSE IF start.v < len THEN start.v ELSE len
  IN SubSeq(array, 1, actualStart) \o SubSeq(array, actualStart + 2, len)

\* Array.prototype.indexOf with strict equality: a number equals no string
indexOf(array, expr) ==
  LET at == {i \in 1..Len(array) : expr.t = "string" /\ array[i] = expr.x}
  IN IF at = {} THEN -1 ELSE Min(at) - 1

\* watch (lines 1181-1183)
watch(watchedExpressions, expr) == Append(watchedExpressions, expr)

\* unwatch as the spec has it: a text that is neither watched nor a number
\* removes nothing
unwatchOrNothing(watchedExpressions, expr) ==
  LET index == indexOf(watchedExpressions, expr)
  IN IF index # -1 THEN spliceOne(watchedExpressions, Num(index))
     ELSE IF toNumber(expr).nan \/ toNumber(expr).v < 0 THEN watchedExpressions
     ELSE spliceOne(watchedExpressions, toNumber(expr))

\* unwatch as a bug would have it: every entry equal to expr is removed
unwatchAll(watchedExpressions, expr) ==
  IF indexOf(watchedExpressions, expr) # -1
  THEN SelectSeq(watchedExpressions, LAMBDA e : e # expr.x)
  ELSE spliceOne(watchedExpressions, toNumber(expr))

\* unwatch (lines 1185-1192)
unwatch(watchedExpressions, expr) ==
  LET index == indexOf(watchedExpressions, expr)
  IN spliceOne(watchedExpressions, IF index # -1 THEN Num(index) ELSE toNumber(expr))

\* The verbs of the control context (lines 1124-1272)
verb(w, line) ==
  CASE line.c \in {"run", "restart"} -> run(w)
    [] line.c = "kill" -> killChild(w)
    [] line.c \in ResumeVerbs ->
         callMethod(handleResumed(w), ResumeMethod(line.c), EmptyObj, [k |-> "none"])
    [] line.c = "exec" ->
         IF line.state = "literal"
         THEN evalInCurrentContext(w, stringLiteralValue(line.x), [k |-> "none"])
         ELSE IF line.state = "bare"
         THEN printed(w, "SyntaxError")   \* exec <text> is no expression
         ELSE evalInCurrentContext(w, line.x, [k |-> "none"])
    [] line.c = "watchers" -> formatWatchers(w, [k |-> "print"])
    [] line.c = "watch" ->
         [w EXCEPT !.s.watchedExpressions = watch(@, line.x)]
    [] line.c = "unwatch" ->
         [w EXCEPT !.s.watchedExpressions = unwatch(@, String(line.x))]
    [] line.c = "repl" -> enterDebugRepl(w)
    [] line.c = "setBreakpoint" ->
         IF line.state = "number"
         THEN setBreakpoint(w, Number(line.n), Undefined, FALSE)
         ELSE IF line.x = <<>>
         THEN IF line.n = 0
              THEN setBreakpoint(w, Undefined, Undefined, FALSE)
              ELSE setBreakpoint(w, Number(line.n), Undefined, FALSE)
         ELSE setBreakpoint(w, String(line.x), Number(line.n), FALSE)
    [] line.c = "clearBreakpoint" -> clearBreakpoint(w, line.x, line.n)
    [] line.c = "setPauseOnExceptions" -> setPauseOnExceptions(w, line.state)
    [] OTHER -> w

\* controlEval (lines 814-833): the code is undefined, and evaluates to
\* nothing, when an empty line is the first line
controlEval(w, input) ==
  LET w1 == prepareControlCode(w, input)
      code == w1.s.lastCommand
  IN IF code = NoValue THEN [w1 EXCEPT !.g.code = code]
     ELSE verb([w1 EXCEPT !.g.code = code], code)

\* debugEval (lines 835-853)
debugEval(w, line) == evalInCurrentContext(w, line, [k |-> "none"])

\* A line of the user: readline, then the eval of the REPL
replLine(w, line) ==
  LET w1 == IF line = EmptyLine THEN w ELSE rliRecord(w, line)
  IN IF w1.s.replEval = "controlEval"
     THEN controlEval(w1, line)
     ELSE debugEval(w1, line)

(***************************************************************************)
(* The target: what it answers to a request.                               *)
(***************************************************************************)
TargetResult(q) ==
  CASE q.m = "Debugger.setBreakpoint" ->
         [breakpointId |-> [key |-> <<q.a.location.scriptId>>,
                            line |-> q.a.location.lineNumber],
          actualLocation |-> Location(q.a.location.scriptId, <<>>,
                                      q.a.location.lineNumber)]
    [] q.m = "Debugger.setBreakpointByUrl" ->
         [breakpointId |-> [key |-> q.a.urlRegex.literal, line |-> q.a.lineNumber]]
    [] q.m = "Debugger.getScriptSource" -> [scriptSource |-> "source"]
    [] q.m \in {"Debugger.evaluateOnCallFrame", "Runtime.evaluate"} ->
         [result |-> [value |-> "r1"]]
    [] OTHER -> EmptyObj

TargetError == CHOOSE e \in ErrorBodies : TRUE

\* The requests the target may refuse
MayFail(q) ==
  q.k.k \in {"setPauseOnExceptions", "setBreakpoint", "setBreakpointByUrl", "view",
             "removeBreakpoint", "watcher"}

PausedParams ==
  [callFrames |-> << [callFrameId |-> "f1", location |-> Location("1", <<>>, 0)] >>,
   reason |-> "other"]

(***************************************************************************)
(* The initial states.                                                     *)
(***************************************************************************)
InitSession ==
  [history |-> [control |-> "c0", debug |-> "d0"],
   arrays |-> [id \in {"c0", "d0", "r0"} |-> <<>>],
   rliHistory |-> "r0",
   replEval |-> "controlEval",
   context |-> "control",
   prompt |-> "debug> ",
   exitDebugRepl |-> FALSE,
   watchedExpressions |-> <<>>,
   knownBreakpoints |-> <<>>,
   pauseOnExceptionState |-> "none",
   lastCommand |-> NoValue,
   knownScripts |-> EmptyFn,
   currentBacktrace |-> Null,
   selectedFrame |-> Null]

InitGhost ==
  [conn |-> 0, announced |-> EmptyFn, announcedBefore |-> EmptyFn, ready |-> FALSE, redraw |-> FALSE,
   last |-> [a |-> "init"], futures |-> <<>>, since |-> "none",
   sinceClaim |-> "none", frameConn |-> 0, restore |-> Null,
   tries |-> <<>>, gaveUp |-> FALSE,
   emits |-> [ready |-> 0, error |-> 0], answered |-> [ok |-> 0, err |-> FALSE],
   out |-> "", watchers |-> [then |-> "", lines |-> <<>>], code |-> NoValue, typed |-> NoValue,
   error |-> "", emitted |-> <<>>, dispatched |-> <<>>,
   stream |-> [sent |-> <<>>, got |-> <<>>, chunks |-> 0]]

InitEnv(children) ==
  [wire |-> "none", target |-> "none", children |-> children,
   spawned |-> Cardinality(children), fails |-> 0, pauses |-> 0, cmds |-> 0, repeats |-> 0, dlines |-> 0,
   rest |-> [conn |-> 0, bytes |-> <<>>],
   conns |-> 0, lastState |-> ""]

\* A ProtocolClient after its constructor (lines 213-221), with no inspector
InitClient ==
  /\ client = [http |-> FALSE, lastId |-> 0, socket |-> FALSE, pending |-> EmptyFn,
               unprocessed |-> <<>>]
  /\ inspector = [paused |-> TRUE, repl |-> FALSE, rliPaused |-> FALSE,
                  stdinPaused |-> FALSE, child |-> 0, exit |-> -1]
  /\ session = InitSession
  /\ tasks = [run |-> [phase |-> "none", child |-> 0, attempts |-> 0],
              boot |-> [left |-> 0, settled |-> TRUE],
              views |-> EmptyFn, formats |-> EmptyFn]
  /\ env = InitEnv({})
  /\ ghost = InitGhost

\* A NodeInspector after its constructor (lines 1355-1402): run() has been
\* called, so the first child is spawned.
Init ==
  /\ client = [http |-> FALSE, lastId |-> 0, socket |-> FALSE, pending |-> EmptyFn,
               unprocessed |-> <<>>]
  /\ inspector = [paused |-> TRUE, repl |-> FALSE, rliPaused |-> FALSE,
                  stdinPaused |-> FALSE, child |-> 0, exit |-> -1]
  /\ session = InitSession
  /\ tasks = [run |-> [phase |-> "spawn", child |-> 1, attempts |-> 0],
              boot |-> [left |-> 0, settled |-> TRUE],
              views |-> EmptyFn, formats |-> EmptyFn]
  /\ env = InitEnv({1})
  /\ ghost = InitGhost

(***************************************************************************)
(* The steps of a bare ProtocolClient and of its peer.                     *)
(***************************************************************************)
BootIds == {id \in DOMAIN client.pending : client.pending[id].k.k = "boot"}
FutureIds == {id \in DOMAIN client.pending : client.pending[id].k.k = "future"}
Connected == env.wire = "up" /\ client.socket
Alive == inspector.exit = -1

\* The answers to the bootstrap, in the order of the requests
BootstrapAnswers ==
  [i \in 1..Cardinality(BootIds) |-> Response(Ascending(BootIds)[i], Null, EmptyObj)]

ClientConnect ==
  /\ env.conns < MaxConn
  /\ ~(client.http /\ ~client.socket)
  /\ Turn([connectWebsocket(Cur) EXCEPT !.e.conns = @ + 1], [a |-> "connect"])

ClientUpgrade ==
  /\ client.http /\ ~client.socket /\ env.wire = "none"
  /\ Turn(handshakeListener(Cur), [a |-> "run"])

ClientBootstrap ==
  /\ Connected /\ BootIds # {}
  /\ Turn(handleChunk([Cur EXCEPT !.g.answered.ok = @ + Cardinality(BootIds)],
                      BootstrapAnswers),
          [a |-> "run"])

\* The peer answers the n oldest calls of the bootstrap in one chunk; the
\* answer at place bad, if bad is not 0, is an error.
ClientBootAnswer ==
  /\ Connected /\ BootIds # {}
  /\ \E n \in 1..Cardinality(BootIds) : \E bad \in 0..n :
       LET ids == Ascending(BootIds)
           frames == [i \in 1..n |->
                        IF i = bad THEN Response(ids[i], TargetError, Null)
                        ELSE Response(ids[i], Null, EmptyObj)]
           w == [Cur EXCEPT !.g.answered =
                   [ok |-> @.ok + (IF bad = 0 THEN n ELSE n - 1),
                    err |-> @.err \/ bad # 0]]
       IN Turn(handleChunk(w, frames), [a |-> "run"])

\* The expressions the harness asks the peer to evaluate, and what the peer
\* answers to each: a value, the empty object {} and an error
ClientExprs == {"value", "void", "throw"}

PeerAnswer(id, a) ==
  CASE a.expression = "throw" -> Response(id, TargetError, Null)
    [] a.expression = "void" -> Response(id, Null, EmptyObj)
    [] OTHER -> Response(id, Null, [value |-> "r1"])

ClientCall ==
  /\ Len(ghost.futures) < MaxCalls
  /\ \E x \in ClientExprs :
       LET f == Len(ghost.futures) + 1
           w == [Cur EXCEPT !.g.futures =
                   Append(@, [n |-> 0, state |-> "pending", v |-> NoValue])]
       IN Turn(callMethod(w, "Runtime.evaluate", [expression |-> x],
                          [k |-> "future", f |-> f]),
               [a |-> "call"])

\* The frames a peer may send: the answer to a call in flight, or a response
\* with an id that is not in flight.  A close frame ends a chunk: the frames
\* after it are not looked at (line 248).
ClientFrames ==
  {PeerAnswer(id, client.pending[id].a) : id \in FutureIds}
    \cup {Response(client.lastId + 1, Null, [value |-> "r1"])}

ClientChunks ==
  LET answers == SeqsUpTo(ClientFrames, MaxFrames)
  IN (answers \ {<<>>})
       \cup {Append(q, CloseFrame) : q \in {r \in answers : Len(r) < MaxFrames}}

ClientChunk ==
  /\ Connected
  /\ \E frames \in ClientChunks :
       Turn(handleChunk(Cur, frames),
            [a |-> "chunk", frames |-> frames, before |-> DOMAIN client.pending])

ClientReset ==
  /\ client.http
  /\ Turn(reset(Cur), [a |-> "reset"])

\* The close of a destroyed socket is emitted once the handler that destroyed
\* it has returned.
SocketClose ==
  /\ Alive
  /\ env.wire = "closing"
  /\ Turn(onClose([Cur EXCEPT !.e.wire = "none", !.e.target = "none",
                              !.g.since = IF inspector.repl THEN "cleared" ELSE @,
                              !.g.sinceClaim = IF inspector.repl THEN "cleared" ELSE @]),
          [a |-> "close", cleared |-> session.selectedFrame # Null])

(***************************************************************************)
(* The steps of a session: the child, the connection, the target, the user.*)
(***************************************************************************)
ListenHint ==
  /\ Alive
  /\ tasks.run.phase = "spawn" /\ tasks.run.child \in env.children
  /\ Turn(runScriptThen(childPrint(Cur, FALSE)), [a |-> "run"])

ChildOutput ==
  /\ Alive
  /\ \E c \in env.children, waiting \in BOOLEAN :
       /\ waiting => (Connected /\ c = inspector.child)
       /\ Turn(childPrint(Cur, waiting), [a |-> "event"])

FetchOk ==
  /\ Alive
  /\ tasks.run.phase = "fetch" /\ tasks.run.child \in env.children
  /\ Turn([connectWebsocket(Cur) EXCEPT !.t.run.phase = "upgrade"], [a |-> "run"])

FetchFail ==
  /\ Alive
  /\ tasks.run.phase = "fetch"
  /\ IF tasks.run.child \in env.children
     THEN /\ env.fails < MaxFail
          /\ Turn(connectFailed([Cur EXCEPT !.e.fails = @ + 1]), [a |-> "run"])
     ELSE Turn(connectFailed(Cur), [a |-> "run"])

\* The fetch of /json fails, as often as the code asks: the target is not
\* there yet, or not there at all.
FetchRefused ==
  /\ Alive
  /\ tasks.run.phase = "fetch"
  /\ Turn(connectFailed(Cur), [a |-> "run"])

Timer ==
  /\ Alive
  /\ tasks.run.phase = "wait"
  /\ Turn(attemptConnect(Cur), [a |-> "run"])

Upgrade ==
  /\ Alive
  /\ tasks.run.phase = "upgrade" /\ tasks.run.child \in env.children
  /\ client.http /\ ~client.socket /\ env.wire = "none"
  /\ Turn([handshakeListener(Cur) EXCEPT !.t.run.phase = "boot"], [a |-> "run"])

\* The target answers the bootstrap in one chunk and runs; the break on the
\* first line may be in the same chunk.
AnswerBootstrap ==
  /\ Alive /\ Connected /\ BootIds # {}
  /\ \E withPause \in BOOLEAN :
       IF withPause
       THEN /\ env.pauses < MaxPauses
            /\ Turn(handleChunk([Cur EXCEPT !.e.target = "paused",
                                            !.g.answered.ok = @ + Cardinality(BootIds),
                                            !.e.pauses = @ + 1,
                                            !.g.since = "paused",
                                            !.g.sinceClaim = "paused",
                                            !.g.frameConn = ghost.conn],
                                BootstrapAnswers
                                  \o <<Event("Debugger.paused", PausedParams)>>),
                    [a |-> "run"])
       ELSE Turn(handleChunk([Cur EXCEPT !.e.target = "running",
                                         !.g.answered.ok = @ + Cardinality(BootIds)],
                             BootstrapAnswers),
                 [a |-> "run"])

\* The target answers the bootstrap in one chunk and refuses one of its
\* calls.
BootstrapRefused ==
  /\ Alive /\ Connected /\ BootIds # {}
  /\ \E bad \in 1..Cardinality(BootIds) :
       LET answers == [i \in 1..Cardinality(BootIds) |->
                         IF i = bad
                         THEN Response(Ascending(BootIds)[i], TargetError, Null)
                         ELSE BootstrapAnswers[i]]
           w == [Cur EXCEPT !.e.target = "running",
                            !.g.answered = [ok |-> @.ok + Cardinality(BootIds) - 1,
                                            err |-> TRUE]]
       IN Turn(handleChunk(w, answers), [a |-> "run"])

\* The target answers its oldest request.
TargetRespond ==
  /\ Alive /\ Connected /\ BootIds = {} /\ client.pending # EmptyFn
  /\ LET id == Min(DOMAIN client.pending)
         q == client.pending[id]
     IN IF q.m = "Debugger.resume"
        THEN IF env.target = "paused"
             THEN Turn(handleChunk([Cur EXCEPT !.e.target = "running",
                                               !.g.since = "cleared",
                                               !.g.sinceClaim = "cleared"],
                                   <<Response(id, Null, EmptyObj),
                                     Event("Debugger.resumed", EmptyObj)>>),
                       [a |-> "respond", ok |-> TRUE])
             ELSE Turn(handleChunk(Cur, <<Response(id, TargetError, Null)>>),
                       [a |-> "respond", ok |-> FALSE])
        ELSE \E ok \in BOOLEAN :
               /\ ~ok => MayFail(q)
               /\ Turn(handleChunk(Cur, <<IF ok
                                          THEN Response(id, Null, TargetResult(q))
                                          ELSE Response(id, TargetError, Null)>>),
                       [a |-> "respond", ok |-> ok])

PausedEvent ==
  /\ Alive /\ Connected
  /\ env.target = "running" /\ env.pauses < MaxPauses
  /\ Turn(handleChunk([Cur EXCEPT !.e.target = "paused",
                                  !.e.pauses = @ + 1,
                                  !.g.since = "paused",
                                  !.g.sinceClaim = "paused",
                                  !.g.frameConn = ghost.conn],
                      <<Event("Debugger.paused", PausedParams)>>),
          [a |-> "event"])

ScriptParsed ==
  /\ Alive /\ Connected
  /\ \E id \in ScriptIds : \E url \in {ScriptUrl[id], <<>>} :
       Turn(handleChunk([Cur EXCEPT !.g.announced =
                           IF url = <<>> THEN @
                           ELSE [x \in DOMAIN @ \cup {id} |->
                                   IF x = id THEN url ELSE @[x]]],
                        <<Event("Debugger.scriptParsed",
                                [scriptId |-> id, url |-> url])>>),
            [a |-> "event"])

BreakpointResolved ==
  /\ Alive /\ Connected
  /\ \E i \in 1..Len(session.knownBreakpoints), id \in ScriptIds :
       Turn(handleChunk(Cur,
              <<Event("Debugger.breakpointResolved",
                      [breakpointId |-> session.knownBreakpoints[i].breakpointId,
                       location |-> Location(id, <<>>,
                          session.knownBreakpoints[i].location.lineNumber)])>>),
            [a |-> "event"])

\* The peer closes the connection: the close of the socket is emitted.
PeerClose ==
  /\ Alive
  /\ env.wire = "up"
  /\ Turn(onClose([Cur EXCEPT !.e.wire = "none", !.e.target = "none",
                              !.g.since = IF inspector.repl THEN "cleared" ELSE @,
                              !.g.sinceClaim = IF inspector.repl THEN "cleared" ELSE @]),
          [a |-> "close", cleared |-> session.selectedFrame # Null])

CloseFrameArrives ==
  /\ Alive /\ Connected
  /\ Turn(handleChunk(Cur, <<CloseFrame>>), [a |-> "event"])

\* The user restarts a session whose run() is over: it resolved, or its
\* connection was reset before it could.
RunIdle ==
  \/ tasks.run.phase = "done"
  \/ tasks.run.phase \in {"upgrade", "boot"} /\ ~client.http

DebugLines == {LineOf("expr", x, 0) : x \in Exprs}

\* The command a line stands for: an empty line in the control context
\* stands for lastCommand
Effective(line) ==
  IF session.replEval = "controlEval" /\ line = EmptyLine
  THEN session.lastCommand ELSE line

UserLine(Cmds) ==
  /\ Alive
  /\ inspector.repl /\ ~inspector.stdinPaused
  /\ \E line \in (IF session.replEval = "controlEval" THEN Cmds ELSE DebugLines) :
       LET control == session.replEval = "controlEval"
           cmd == Effective(line)
           runs == control /\ cmd # NoValue /\ cmd.c \in {"run", "restart"}
           resumes == control /\ cmd # NoValue /\ cmd.c \in ResumeVerbs
       IN /\ IF line = EmptyLine THEN env.repeats < MaxRepeats ELSE env.cmds < MaxCmds
          /\ runs => (env.spawned < MaxRuns /\ RunIdle)
          /\ Turn(replLine([Cur EXCEPT
                     !.e.cmds = IF line = EmptyLine THEN @ ELSE @ + 1,
                     !.e.repeats = IF line = EmptyLine THEN @ + 1 ELSE @,
                     !.g.out = "",
                     !.g.typed = IF control /\ line # EmptyLine THEN line ELSE @,
                     !.g.since = IF resumes THEN "cleared" ELSE @,
                     !.g.sinceClaim = IF resumes \/ runs THEN "cleared" ELSE @], line),
                  [a |-> "line", line |-> line])

\* Ctrl+C in debug mode
Sigint ==
  /\ Alive
  /\ inspector.repl /\ ~inspector.stdinPaused
  /\ session.exitDebugRepl
  /\ Turn(exitDebugRepl(Cur), [a |-> "sigint"])

\* SIGTERM or SIGHUP: process.exit(0) (lines 1390-1391)
Signal ==
  /\ Alive
  /\ Turn(processExit(Cur, 0), [a |-> "signal"])

\* The REPL exits (.exit, or the end of the input): its exit listener
\* (lines 1396-1398), there once the first run() has resolved
ReplExit ==
  /\ Alive
  /\ inspector.repl
  /\ Turn(processExit(Cur, 0), [a |-> "exit"])

(***************************************************************************)
(* The specifications.                                                     *)
(***************************************************************************)
NextClient ==
  \/ ClientConnect \/ ClientUpgrade \/ ClientBootstrap
  \/ ClientCall \/ ClientChunk \/ ClientReset \/ SocketClose

SpecClient == InitClient /\ [][NextClient]_vars

\* The bootstrap of a bare client, answered piece by piece, with errors
NextBoot ==
  \/ ClientConnect \/ ClientUpgrade \/ ClientBootAnswer
  \/ ClientCall \/ ClientReset \/ SocketClose

SpecBoot == InitClient /\ [][NextBoot]_vars

\* The attempts of run(): the fetch and the bootstrap may fail every time.
CmdsRetry == {Line("restart")}

NextRetry ==
  \/ ListenHint \/ FetchOk \/ FetchRefused \/ Timer \/ Upgrade
  \/ AnswerBootstrap \/ BootstrapRefused \/ SocketClose
  \/ UserLine(CmdsRetry)

SpecRetry == Init /\ [][NextRetry]_vars

\* The ways out: the signals, the exit of the REPL and the kill verb, at any
\* moment of a run.
CmdsQuit == {Line("restart"), Line("kill")}

NextQuit ==
  \/ ListenHint \/ FetchOk \/ FetchFail \/ Timer \/ Upgrade \/ AnswerBootstrap
  \/ SocketClose
  \/ UserLine(CmdsQuit) \/ Signal \/ ReplExit

SpecQuit == Init /\ [][NextQuit]_vars

CmdsPause == {Line("restart"), Line("cont"), Line("kill")}

NextPause ==
  \/ ListenHint \/ FetchOk \/ FetchFail \/ Timer \/ Upgrade \/ AnswerBootstrap
  \/ SocketClose \/ PeerClose \/ CloseFrameArrives \/ ChildOutput
  \/ TargetRespond \/ PausedEvent \/ ScriptParsed
  \/ UserLine(CmdsPause)

SpecPause == Init /\ [][NextPause]_vars

\* The event loop runs the handlers that are due, the target answers the
\* requests it has received and a child that was spawned says where it
\* listens.  The user, the script of the child and the failures are free.
\* No line restarts the session of NextSuspend, so the upgrade and the
\* bootstrap are due only before there is a REPL to suspend.
FairSuspend ==
  /\ WF_vars(ListenHint) /\ WF_vars(FetchOk) /\ WF_vars(Timer)
  /\ WF_vars(SocketClose) /\ WF_vars(TargetRespond)

CmdsSuspend == {Line("cont")}

NextSuspend ==
  \/ ListenHint \/ FetchOk \/ FetchFail \/ Timer \/ Upgrade \/ AnswerBootstrap
  \/ SocketClose \/ PeerClose \/ CloseFrameArrives \/ ChildOutput
  \/ TargetRespond \/ PausedEvent
  \/ UserLine(CmdsSuspend)

\* The breakpoints do not depend on how many attempts a connection takes: the
\* attempts of NextBreak succeed.
CmdsBreak ==
  {Line("restart"), LineOf("setBreakpoint", NameA, 1),
   LineOf("clearBreakpoint", NameA, 1)}

NextBreak ==
  \/ ListenHint \/ FetchOk \/ Upgrade \/ AnswerBootstrap
  \/ SocketClose
  \/ TargetRespond \/ ScriptParsed \/ BreakpointResolved
  \/ UserLine(CmdsBreak)

SpecBreak == Init /\ [][NextBreak]_vars

\* Lines that ask for a breakpoint at a line that is not positive, in the
\* current script and in a script given by name, paused and running
CmdsLine ==
  {Line("cont"), LineNumber("setBreakpoint", -1), LineNumber("setBreakpoint", 0),
   LineOf("setBreakpoint", NameA, -1), LineOf("setBreakpoint", NameA, 0)}

NextLine ==
  \/ ListenHint \/ FetchOk \/ Upgrade \/ AnswerBootstrap
  \/ TargetRespond \/ PausedEvent \/ ScriptParsed
  \/ UserLine(CmdsLine)

SpecLine == Init /\ [][NextLine]_vars

\* Lines with empty lines after them: a resume verb, exec <text> with a
\* quote and a backslash in the text, and exec as a call
ExecTexts == {<<"x">>, <<"x", DQ>>, <<BS, "x">>}

CmdsRepeat ==
  {EmptyLine, Line("cont"), LineOf("exec", <<"x">>, 0)}
    \cup {LineBare("exec", t) : t \in ExecTexts}

NextRepeat ==
  \/ ListenHint \/ FetchOk \/ Upgrade \/ AnswerBootstrap
  \/ TargetRespond \/ PausedEvent
  \/ UserLine(CmdsRepeat)

SpecRepeat == Init /\ [][NextRepeat]_vars

\* Lines that evaluate and lines that resume, in the control context and in
\* the debug REPL
CmdsEval ==
  {Line(c) : c \in ResumeVerbs} \cup {Line("repl"), Line("watchers")}
    \cup {LineOf("exec", x, 0) : x \in Exprs} \cup {LineOf("watch", x, 0) : x \in Exprs}

NextEval ==
  \/ ListenHint \/ FetchOk \/ Upgrade \/ AnswerBootstrap
  \/ TargetRespond \/ PausedEvent
  \/ UserLine(CmdsEval) \/ Sigint

SpecEval == Init /\ [][NextEval]_vars

CmdsKeep ==
  {Line("restart"), LineState("setPauseOnExceptions", "all"), Line("repl")}
    \cup {LineOf("watch", x, 0) : x \in Exprs}

NextKeep ==
  \/ ListenHint \/ FetchOk \/ FetchFail \/ Timer \/ Upgrade \/ AnswerBootstrap
  \/ SocketClose \/ PeerClose
  \/ TargetRespond
  \/ UserLine(CmdsKeep) \/ Sigint

SpecKeep == Init /\ [][NextKeep]_vars

FairSpec == Init /\ [][NextSuspend]_vars /\ FairSuspend

(***************************************************************************)
(* Properties of the protocol client.                                      *)
(***************************************************************************)
\* The first frame of a chunk, from frame i on, that answers id and is looked
\* at (no close frame comes before it): 0 if there is none
RECURSIVE FirstAnswerFrom(_, _, _)
FirstAnswerFrom(frames, id, i) ==
  IF i > Len(frames) \/ frames[i].t = "close" THEN 0
  ELSE IF frames[i].t = "response" /\ frames[i].id = id THEN i
  ELSE FirstAnswerFrom(frames, id, i + 1)

FirstAnswer(frames, id) == FirstAnswerFrom(frames, id, 1)

\* What the future of a call is to hold after the frame that answers it
Outcome(frame) ==
  IF frame.error # Null
  THEN [n |-> 1, state |-> "rejected", v |-> unpackError(frame.error)]
  ELSE [n |-> 1, state |-> "resolved",
        v |-> IF frame.result = EmptyObj THEN NoValue ELSE frame.result]

C1_Step ==
  /\ \A f \in DOMAIN ghost'.futures : ghost'.futures[f].n <= 1
  /\ ghost'.last.a = "chunk" =>
       \A id \in DOMAIN client.pending :
         LET k == client.pending[id].k
             at == FirstAnswer(ghost'.last.frames, id)
         IN (k.k = "future" /\ at # 0) =>
              /\ ghost.futures[k.f].n = 0
              /\ ghost'.futures[k.f].n = 1
              /\ ghost'.futures[k.f].state =
                   (IF ghost'.last.frames[at].error # Null
                    THEN "rejected" ELSE "resolved")
              /\ id \notin DOMAIN client'.pending

C2_Step ==
  ghost'.last.a = "chunk" =>
    LET frames == ghost'.last.frames
        closed == \E i \in 1..Len(frames) : frames[i].t = "close"
        unanswered == {id \in DOMAIN client.pending : FirstAnswer(frames, id) = 0}
        settled == {client.pending[id].k.f :
                      id \in {i \in DOMAIN client.pending \ unanswered :
                                client.pending[i].k.k = "future"}}
    IN /\ inspector'.exit = -1
       /\ \A id \in DOMAIN client.pending \ unanswered :
            client.pending[id].k.k = "future" =>
              ghost'.futures[client.pending[id].k.f]
                = Outcome(frames[FirstAnswer(frames, id)])
       /\ \A f \in DOMAIN ghost.futures \ settled :
            ghost'.futures[f] = ghost.futures[f]
       /\ ~closed =>
            /\ client'.pending = [id \in unanswered |-> client.pending[id]]
            /\ unanswered = DOMAIN client.pending => client' = client

\* C2: responses are matched to calls by id only: in whatever order the
\* responses arrive, the future of a call gets the result or the error of the
\* response that carries its id, and a response whose id is not in the pending
\* table changes neither the table nor any future, and raises no error.
C2_MatchedById == [][C2_Step]_vars

C2_Witness ==
  /\ ghost.last.a = "chunk"
  /\ \A i \in 1..Len(ghost.last.frames) :
       /\ ghost.last.frames[i].t = "response"
       /\ ghost.last.frames[i].id \notin ghost.last.before
  /\ Len(ghost.futures) >= 2
  /\ ghost.futures[2].n = 1 /\ ghost.futures[1].n = 0
  /\ \E id \in FutureIds : client.pending[id].k.f = 1

(***************************************************************************)
(* Properties of the pause and of the restart.                             *)
(***************************************************************************)
Viewing == DOMAIN tasks.views # {}
Suspended == inspector.repl /\ inspector.stdinPaused

\* C3: while the view of a pause is not over (a body of suspendReplWhile has
\* not completed), the REPL is suspended: the paused flag is set, so child
\* output does not redraw the prompt, and readline and stdin are paused, so no
\* line of the user is evaluated.
C3_SuspendedWhileViewing ==
  (Alive /\ Viewing) =>
    (inspector.paused /\ inspector.rliPaused /\ inspector.stdinPaused)

\* C4: every suspension is followed by a resume: the REPL is not left
\* suspended for ever while the debugger runs.
C4_EventuallyResumed == (Alive /\ Suspended) ~> (~Suspended \/ ~Alive)

\* C5, as stated: the selected frame and the backtrace are there exactly when
\* a pause was handled and no resume verb, resumed event, restart or close of
\* the connection came after it.
C5_FrameIffPausedSinceRestart ==
  /\ session.selectedFrame # Null <=> ghost.sinceClaim = "paused"
  /\ session.currentBacktrace # Null <=> ghost.sinceClaim = "paused"

\* C5, amended: the selected frame and the backtrace are there exactly when a
\* pause was handled and no resume verb, resumed event or close event of the
\* connection was handled after it; a restart clears them when the close of
\* the connection it has reset is handled.
C5_FrameIffPaused ==
  /\ session.selectedFrame # Null <=> ghost.since = "paused"
  /\ session.currentBacktrace # Null <=> ghost.since = "paused"

C5_Witness ==
  /\ ghost.last = [a |-> "close", cleared |-> TRUE]
  /\ tasks.run.phase = "spawn" /\ env.spawned >= 2
  /\ session.selectedFrame = Null /\ session.currentBacktrace = Null

Registry == [id \in DOMAIN session.knownScripts |-> session.knownScripts[id].url]

\* C9: once the connection made by a restart is ready, the script registry
\* holds exactly the scripts with a url announced on that connection, and a
\* frame that is selected was received on that connection.
C9_RegistryOfConnection ==
  (Alive /\ Connected /\ ghost.ready /\ env.spawned >= 2) =>
    /\ Registry = ghost.announced
    /\ session.selectedFrame # Null => ghost.frameConn = ghost.conn
    /\ session.currentBacktrace # Null => ghost.frameConn = ghost.conn

C9_Witness ==
  /\ Alive /\ Connected /\ ghost.ready /\ env.spawned >= 2
  /\ "2" \in DOMAIN ghost.announcedBefore
  /\ DOMAIN session.knownScripts = {"1"}
  /\ ghost.frameConn \in 1..(ghost.conn - 1)
  /\ session.selectedFrame = Null

(***************************************************************************)
(* Properties of the breakpoints.                                          *)
(***************************************************************************)
\* C6: no two entries of knownBreakpoints have the same breakpointId.
C6_NoDuplicateIds ==
  \A i, j \in 1..Len(session.knownBreakpoints) :
    i # j => session.knownBreakpoints[i].breakpointId
               # session.knownBreakpoints[j].breakpointId

\* A breakpoint set by name before its script was known, and resolved since:
\* the event updated the entry that was there.
C6_Witness ==
  /\ Len(session.knownBreakpoints) = 1
  /\ session.knownBreakpoints[1].breakpointId.key = NameA
  /\ session.knownBreakpoints[1].location.scriptId # NoId
  /\ session.knownBreakpoints[1].location.scriptUrl # <<>>

AllUrls == {ScriptUrl[id] : id \in ScriptIds}

\* The scripts a breakpoint of the list stands for: the script it is in, or
\* the scripts its regular expression matches while it is in none.
BreakpointUrls(b) ==
  IF b.location.scriptId # NoId
  THEN {ScriptUrl[b.location.scriptId]}
  ELSE {u \in AllUrls : urlRegexMatches([literal |-> b.breakpointId.key], u)}

\* The scripts a request to set a breakpoint is for
RequestUrls(r) ==
  IF r.m = "Debugger.setBreakpoint"
  THEN {ScriptUrl[r.a.location.scriptId]}
  ELSE {u \in AllUrls : urlRegexMatches(r.a.urlRegex, u)}

RequestLine(r) ==
  IF r.m = "Debugger.setBreakpoint" THEN r.a.location.lineNumber
  ELSE r.a.lineNumber

\* C7: at the ready of a reconnection, every breakpoint of the list that has
\* a scriptUrl is asked for again by one request for the same script URL and
\* the same line, and no request is made for the others.
C7_RestoredAtSamePlace ==
  ghost.restore # Null =>
    LET before == ghost.restore.before
        issued == ghost.restore.issued
        withUrl == {i \in 1..Len(before) : before[i].location.scriptUrl # <<>>}
    IN /\ \A i \in withUrl :
            \E j \in 1..Len(issued) :
              /\ RequestUrls(issued[j]) = BreakpointUrls(before[i])
              /\ RequestLine(issued[j]) = before[i].location.lineNumber
       /\ Len(issued) = Cardinality(withUrl)

(***************************************************************************)
(* Properties of what a restart keeps.                                     *)
(***************************************************************************)
ControlBuffer(s) ==
  IF s.exitDebugRepl THEN s.arrays[s.history.control] ELSE s.arrays[s.rliHistory]
DebugBuffer(s) ==
  IF s.exitDebugRepl THEN s.arrays[s.rliHistory] ELSE s.arrays[s.history.debug]

Kept(s, t) ==
  /\ t.watchedExpressions = s.watchedExpressions
  /\ ControlBuffer(t) = ControlBuffer(s)
  /\ DebugBuffer(t) = DebugBuffer(s)
  /\ t.pauseOnExceptionState = s.pauseOnExceptionState
  /\ t.lastCommand = s.lastCommand

\* The session once the REPL has read a line, before the verb is run
Entered(line) == prepareControlCode(rliRecord(Cur, line), line).s

C8_Step ==
  /\ ghost'.last.a \in {"run", "close"} => Kept(session, session')
  /\ (ghost'.last.a = "line" /\ session.replEval = "controlEval"
        /\ ghost'.last.line.c \in {"run", "restart"})
       => Kept(Entered(ghost'.last.line), session')

\* C8: run() and what follows from it (the child killed, the client reset and
\* its close handled, the spawn, the attempts, the upgrade, the bootstrap and
\* ready) leave the watch list, the content of the two history buffers, the
\* cached pauseOnException state and lastCommand as they are.
C8_RestartKeeps == [][C8_Step]_vars

C8_Witness ==
  /\ ghost.last.a = "run" /\ ghost.ready /\ env.spawned >= 2
  /\ session.watchedExpressions # <<>>
  /\ ControlBuffer(session) # <<>>
  /\ session.lastCommand = Line("restart")

BootNoneId ==
  CHOOSE i \in 1..Len(BootstrapCalls) :
    BootstrapCalls[i].m = "Debugger.setPauseOnExceptions"

C10_Step ==
  /\ session'.pauseOnExceptionState # session.pauseOnExceptionState =>
       /\ ghost'.last = [a |-> "respond", ok |-> TRUE]
       /\ client.pending # EmptyFn
       /\ LET q == client.pending[Min(DOMAIN client.pending)]
          IN /\ q.m = "Debugger.setPauseOnExceptions"
             /\ q.k.k = "setPauseOnExceptions"
             /\ q.a.state = session'.pauseOnExceptionState
  /\ (ghost'.ready /\ ~ghost.ready /\ inspector.repl) =>
       /\ env'.lastState = session'.pauseOnExceptionState
       /\ client'.lastId > BootNoneId
       /\ client'.lastId \in DOMAIN client'.pending
       /\ client'.pending[client'.lastId].m = "Debugger.setPauseOnExceptions"
       /\ client'.pending[client'.lastId].a.state = session'.pauseOnExceptionState

\* C10: the cached pauseOnException state changes only in the step that
\* handles the successful answer to a setPauseOnExceptions call of the
\* session, to the state of that call; and at the ready of a reconnection the
\* session sends the cached state, after the 'none' of the bootstrap, so that
\* it is the last state sent on the connection.
C10_CachedStateResent == [][C10_Step]_vars

C10_Witness ==
  /\ ghost.last.a = "run" /\ ghost.ready /\ env.spawned >= 2
  /\ session.pauseOnExceptionState = "all"
  /\ env.lastState = "all"
(***************************************************************************)
(* Properties of the connection: the bootstrap and the attempts.           *)
(***************************************************************************)
NBoot == Len(BootstrapCalls)

C12_Step ==
  /\ (client'.socket /\ ~client.socket) =>
       /\ client'.lastId = NBoot
       /\ client'.pending =
            [id \in 1..NBoot |-> [m |-> BootstrapCalls[id].m,
                                  a |-> BootstrapCalls[id].a,
                                  k |-> [k |-> "boot"]]]
  /\ \A id \in DOMAIN client'.pending :
       client'.pending[id].k.k # "boot" => id > NBoot
  /\ ghost'.emits.ready + ghost'.emits.error <= 1
  /\ ghost'.emits.ready = 1 <=> (ghost'.answered.ok = NBoot /\ ~ghost'.answered.err)
  /\ ghost'.emits.error = 1 <=> ghost'.answered.err

\* C12: at the upgrade of a connection the eight requests of the bootstrap
\* are sent, in their order, with the ids 1 to 8, so before any other request
\* of the connection; at most one of ready and error is emitted for the
\* connection: ready if and only if all eight have been answered with
\* success, error if and only if one of them has been answered with an error.
C12_BootstrapOutcome == [][C12_Step]_vars

C12_Witness ==
  /\ Connected /\ BootIds = {}
  /\ ghost.answered = [ok |-> NBoot - 1, err |-> TRUE]
  /\ ghost.emits = [ready |-> 0, error |-> 1]
  /\ FutureIds # {}

\* C11: a run makes at most ten attempts to connect; every attempt but the
\* last one made has failed, so an attempt follows only a failure and none
\* follows a success; and the tenth failure, and nothing else, writes
\* ' failed to connect, please retry' and ends the process with code 1.
C11_AtMostTenAttempts ==
  /\ Len(ghost.tries) <= MaxAttempts
  /\ \A i \in 1..(Len(ghost.tries) - 1) : ghost.tries[i] = "failed"
  /\ (Len(ghost.tries) = MaxAttempts /\ ghost.tries[MaxAttempts] = "failed")
       <=> ghost.gaveUp
  /\ ghost.gaveUp => inspector.exit = 1
  /\ (tasks.run.phase = "done" /\ Alive) =>
       (ghost.tries # <<>> /\ ghost.tries[Len(ghost.tries)] = "ok")

C11_Witness ==
  /\ ghost.gaveUp /\ inspector.exit = 1
  /\ Len(ghost.tries) = MaxAttempts
  /\ ghost.emits.error = 1
  /\ env.spawned >= 2

(***************************************************************************)
(* Properties of the ways out.                                             *)
(***************************************************************************)
QuitTaken == ghost.last.a \in {"signal", "exit"}
KillTaken == ghost.last.a = "line" /\ ghost.last.line = Line("kill")

\* C13: once a signal, the exit of the REPL or the kill verb has been
\* handled, no child that was spawned is alive and the client is reset (no
\* request, no socket, no call in flight), whatever the run was doing; and
\* the signals and the exit of the REPL end the process with code 0.
C13_QuitKillsChild ==
  (QuitTaken \/ KillTaken) =>
    /\ env.children = {}
    /\ ~client.http /\ ~client.socket /\ client.pending = EmptyFn
    /\ QuitTaken => inspector.exit = 0

(***************************************************************************)
(* The frame codec of the protocol client: encodeFrameHybi17 and           *)
(* decodeFrameHybi17.  A Buffer is a sequence of bytes, index i of the     *)
(* code being element i + 1.                                               *)
(***************************************************************************)
MaxPayload == 2     \* length of the payloads enumerated byte by byte
MaxTail == 2        \* bytes after the two header bytes of an enumerated buffer
MaxCut == 11        \* a frame is cut after at most this many bytes, or one before its end

kOpCodeText == 1
kOpCodeClose == 8
kFinalBit == 128
kReserved1Bit == 64
kReserved2Bit == 32
kReserved3Bit == 16
kOpCodeMask == 15
kMaskBit == 128
kPayloadLengthMask == 127
kMaxSingleBytePayloadLength == 125
kMaxTwoBytePayloadLength == 65535
kTwoBytePayloadLengthField == 126
kEightBytePayloadLengthField == 127
kMaskingKeyWidthInBytes == 4

\* a & b, a | b, a ^ b on non-negative integers, bit by bit
RECURSIVE BitAnd(_, _)
BitAnd(a, b) ==
  IF a = 0 \/ b = 0 THEN 0
  ELSE ((a % 2) * (b % 2)) + 2 * BitAnd(a \div 2, b \div 2)

RECURSIVE BitOr(_, _)
BitOr(a, b) ==
  IF a = 0 THEN b
  ELSE IF b = 0 THEN a
  ELSE (IF a % 2 = 1 \/ b % 2 = 1 THEN 1 ELSE 0) + 2 * BitOr(a \div 2, b \div 2)

RECURSIVE BitXor(_, _)
BitXor(a, b) ==
  IF a = 0 THEN b
  ELSE IF b = 0 THEN a
  ELSE (((a % 2) + (b % 2)) % 2) + 2 * BitXor(a \div 2, b \div 2)

\* A length as the code holds it, a double with an integer value:
\* hi * 2^31 + lo, 0 <= lo < 2^31.  The lengths of the buffers that are
\* written out byte by byte have hi = 0.
Length(hi, lo) == [hi |-> hi, lo |-> lo]
LengthOf(buffer) == Length(0, Len(buffer))

\* ToInt32 of a length: the low 32 bits, read as a signed number
ToInt32(n) == IF n.hi % 2 = 1 THEN n.lo - 2147483647 - 1 ELSE n.lo

\* x >> 8 and x & 0xFF on a signed 32-bit x
Sar8(x) == x \div 256
LowByte(x) == x % 256

\* (x << 8) on a signed 32-bit x: the low 24 bits move up, bit 23 becomes the sign
Shl8(x) ==
  LET low == x % 16777216
  IN IF low >= 8388608 THEN (low - 16777216) * 256 ELSE low * 256

\* the 8 bytes of the loop of lines 117-120, most significant first
RECURSIVE lengthBytes(_, _)
lengthBytes(remaining, i) ==
  IF i = 8 THEN <<>>
  ELSE lengthBytes(Sar8(remaining), i + 1) \o <<LowByte(remaining)>>

\* the same encoding with an off-by-one in the first comparison
lengthFieldShortTwo(dataLength) ==
  IF dataLength.hi > 0 \/ dataLength.lo >= kMaxTwoBytePayloadLength
  THEN [singleByteLength |-> kEightBytePayloadLengthField,
        additionalLength |-> lengthBytes(ToInt32(dataLength), 0)]
  ELSE IF dataLength.lo > kMaxSingleBytePayloadLength
  THEN [singleByteLength |-> kTwoBytePayloadLengthField,
        additionalLength |->
          <<BitAnd(dataLength.lo, 65280) \div 256, BitAnd(dataLength.lo, 255)>>]
  ELSE [singleByteLength |-> dataLength.lo, additionalLength |-> <<>>]

\* lines 109-129: the length byte and the extended length of a frame
lengthField(dataLength) ==
  IF dataLength.hi > 0 \/ dataLength.lo > kMaxTwoBytePayloadLength
  THEN [singleByteLength |-> kEightBytePayloadLengthField,
        additionalLength |-> lengthBytes(ToInt32(dataLength), 0)]
  ELSE IF dataLength.lo > kMaxSingleBytePayloadLength
  THEN [singleByteLength |-> kTwoBytePayloadLengthField,
        additionalLength |->
          <<BitAnd(dataLength.lo, 65280) \div 256, BitAnd(dataLength.lo, 255)>>]
  ELSE [singleByteLength |-> dataLength.lo, additionalLength |-> <<>>]

\* Buffer.alloc(4): the masking key is four zero bytes
mask == <<0, 0, 0, 0>>

encodeFrameHybi17(payload) ==
  LET f == lengthField(LengthOf(payload))
      header == <<BitOr(kFinalBit, kOpCodeText), BitOr(kMaskBit, f.singleByteLength)>>
      masked == [i \in 1..Len(payload) |->
                   BitXor(payload[i], mask[((i - 1) % kMaskingKeyWidthInBytes) + 1])]
  IN header \o f.additionalLength \o mask \o masked

\* data[i]: undefined beyond the end of the buffer
Defined(data, i) == i < Len(data)
ByteAt(data, i) == IF Defined(data, i) THEN data[i + 1] ELSE 0

\* adjustOffset of Buffer.prototype.slice: NaN counts as 0, a negative
\* offset counts from the end, and the result stays within the buffer
adjustOffset(offset, length) ==
  IF offset.nan THEN 0
  ELSE IF offset.v < 0 THEN (IF offset.v + length > 0 THEN offset.v + length ELSE 0)
  ELSE IF offset.v < length THEN offset.v ELSE length

slice(data, start, end) ==
  LET s == adjustOffset(start, Len(data))
      e == adjustOffset(end, Len(data))
  IN IF e > s THEN SubSeq(data, s + 1, e) ELSE <<>>

sliceFrom(data, start) == slice(data, start, Num(Len(data)))

NoPayload == [null |-> TRUE, bytes |-> <<>>]
Payload(bytes) == [null |-> FALSE, bytes |-> bytes]

Returned(closed, payload, rest) ==
  [error |-> "", closed |-> closed, payload |-> payload, rest |-> rest]
Thrown(message) ==
  [error |-> message, closed |-> FALSE, payload |-> NoPayload, rest |-> <<>>]

notComplete(data) == Returned(FALSE, NoPayload, data)

\* lines 183-201: the payload length the header announces, as the code
\* computes it.  After << 8 the low byte is zero, so | adds the next byte;
\* a byte beyond the end of the buffer is undefined and counts as 0 for |,
\* while it turns the sum of line 187 into NaN.
RECURSIVE eightByteLength(_, _, _)
eightByteLength(data, payloadLength, i) ==
  IF i = 8 THEN payloadLength
  ELSE eightByteLength(data, Shl8(payloadLength) + ByteAt(data, 2 + i), i + 1)

announcedLength(data, secondByte) ==
  LET field == BitAnd(secondByte, kPayloadLengthMask)
  IN IF field = kTwoBytePayloadLengthField
     THEN [offset |-> 4,
           length |-> IF Defined(data, 3)
                      THEN Num(ByteAt(data, 2) * 256 + ByteAt(data, 3))
                      ELSE NaN]
     ELSE IF field = kEightBytePayloadLengthField
     THEN [offset |-> 10, length |-> Num(eightByteLength(data, 0, 0))]
     ELSE [offset |-> 2, length |-> Num(field)]

decodeBody(data, closed, secondByte) ==
  LET a == announcedLength(data, secondByte)
      dataAvailable == Len(data)
      \* (dataAvailable - payloadOffset - payloadLength) < 0, false for NaN
      short == ~a.length.nan /\ dataAvailable - a.offset < a.length.v
      payloadEnd == IF a.length.nan THEN NaN ELSE Num(a.offset + a.length.v)
  IN IF short THEN notComplete(data)
     ELSE Returned(closed,
                   Payload(slice(data, Num(a.offset), payloadEnd)),
                   sliceFrom(data, payloadEnd))

\* a decoder that lets masked frames through
maskedFrameIgnored(secondByte) == FALSE

\* the check of the mask bit, lines 168-170
maskedFrame(secondByte) == BitAnd(secondByte, kMaskBit) # 0

\* a decoder that takes every opcode but close for text
opCodeClosedLax(opCode) ==
  IF opCode = kOpCodeClose THEN "closed" ELSE "open"

\* the switch on the opcode, lines 172-181: closed, open, or refused
opCodeClosed(opCode) ==
  IF opCode = kOpCodeClose THEN "closed"
  ELSE IF opCode = kOpCodeText THEN "open"
  ELSE "unsupported"

decodeFrameHybi17(data) ==
  IF Len(data) - 2 < 0 THEN notComplete(data)
  ELSE
    LET firstByte == data[1]
        secondByte == data[2]
        final == BitAnd(firstByte, kFinalBit) # 0
        reserved1 == BitAnd(firstByte, kReserved1Bit) # 0
        reserved2 == BitAnd(firstByte, kReserved2Bit) # 0
        reserved3 == BitAnd(firstByte, kReserved3Bit) # 0
        opCode == BitAnd(firstByte, kOpCodeMask)
        masked == maskedFrame(secondByte)
        compressed == reserved1
    IN IF compressed THEN Thrown("Compressed frames not supported")
       ELSE IF ~final \/ reserved2 \/ reserved3
       THEN Thrown("Only compression extension is supported")
       ELSE IF masked THEN Thrown("Masked server frame - not supported")
       ELSE IF opCodeClosed(opCode) = "unsupported" THEN Thrown("Unsupported op code")
       ELSE decodeBody(data, opCodeClosed(opCode) = "closed", secondByte)

(***************************************************************************)
(* The codec on its own: payloads and lengths are handed to the encoder,   *)
(* buffers to the decoder.  The state is kept in client.                   *)
(***************************************************************************)
PayloadBytes == {0, 123, 255}
Filled(n) == [i \in 1..n |-> (i * 7) % 256]
BoundaryLengths ==
  {kMaxSingleBytePayloadLength, kMaxSingleBytePayloadLength + 1,
   kMaxTwoBytePayloadLength, kMaxTwoBytePayloadLength + 1}
\* the payloads written out byte by byte: the short ones, and one on each
\* side of the step from the one-byte to the two-byte length
Payloads ==
  SeqsUpTo(PayloadBytes, MaxPayload)
    \cup {Filled(n) : n \in {kMaxSingleBytePayloadLength, kMaxSingleBytePayloadLength + 1}}

\* payload lengths handed to the length encoding, up to 2^32
DataLengths ==
  {Length(0, n) : n \in BoundaryLengths \cup {0, 1, 127, 255, 256, 65537, 16777216, 2147483647}}
    \cup {Length(1, 0), Length(1, 65536), Length(2, 0)}

\* the frame a server sends: the same layout without mask bit and masking key
serverFrame(opCode, payload) ==
  LET f == lengthField(LengthOf(payload))
  IN <<BitOr(kFinalBit, opCode), f.singleByteLength>> \o f.additionalLength \o payload

FirstBytes == {129, 136, 1, 193, 161, 145, 130, 128, 137}
SecondBytes == {0, 1, 2, 126, 127, 129, 254}
TailBytes == {0, 1, 128}
Trailers == {<<>>, <<129>>, <<129, 0>>}

\* eight length bytes whose value does not fit 31 bits
WideLengths ==
  {<<0, 0, 0, 1, 0, 0, 0, 0>>, <<0, 0, 0, 1, 0, 0, 0, 1>>,
   <<0, 0, 0, 0, 128, 0, 0, 0>>, <<0, 0, 0, 0, 255, 255, 255, 255>>,
   <<0, 0, 0, 0, 0, 0, 0, 0>>, <<0, 0, 0, 0, 0, 0, 0, 1>>,
   <<0, 0, 0, 0, 0, 1, 0, 0>>}

ServerBuffers ==
  {<<>>} \cup {<<b>> : b \in FirstBytes}
    \cup {<<b0, b1>> \o t : b0 \in FirstBytes, b1 \in SecondBytes,
                            t \in SeqsUpTo(TailBytes, MaxTail)}
    \cup {<<129, kEightBytePayloadLengthField>> \o w \o t :
            w \in WideLengths, t \in {<<>>, <<123>>}}

NoResult == [error |-> "none", closed |-> FALSE, payload |-> NoPayload, rest |-> <<>>]

Idle ==
  [op |-> "init", from |-> "init", input |-> "none", payload |-> <<>>, opCode |-> kOpCodeText,
   trailer |-> <<>>, dataLength |-> Length(0, 0),
   field |-> [singleByteLength |-> 0, additionalLength |-> <<>>],
   frame |-> <<>>, data |-> <<>>, result |-> NoResult]

\* the inputs: a payload to encode or to be framed by the server (with the
\* opcode and the start of the next frame), a payload length, or the bytes
\* received so far
CodecInputs ==
  {[Idle EXCEPT !.input = "payload", !.payload = p, !.opCode = o, !.trailer = t] :
     p \in Payloads, o \in {kOpCodeText, kOpCodeClose}, t \in Trailers}
    \cup {[Idle EXCEPT !.input = "length", !.dataLength = n] : n \in DataLengths}
    \cup {[Idle EXCEPT !.input = "buffer", !.data = b] : b \in ServerBuffers}

InitCodec ==
  /\ client \in CodecInputs
  /\ inspector = Null /\ session = Null /\ tasks = Null /\ env = Null
  /\ ghost = [last |-> [a |-> "init"]]

CodecStep(c) ==
  /\ client' = c
  /\ UNCHANGED <<inspector, session, tasks, env, ghost>>

Encode ==
  /\ client.op = "init" /\ client.input = "payload"
  /\ client.opCode = kOpCodeText /\ client.trailer = <<>>
  /\ CodecStep([client EXCEPT !.op = "encode",
                              !.frame = encodeFrameHybi17(client.payload)])

EncodeLength ==
  /\ client.op = "init" /\ client.input = "length"
  /\ CodecStep([client EXCEPT !.op = "length", !.field = lengthField(client.dataLength)])

\* the frame of the encoder is handed to the decoder as it is
Loopback ==
  /\ client.op = "encode"
  /\ CodecStep([client EXCEPT !.op = "loopback", !.data = client.frame])

\* a frame of the server arrives whole, with the start of the next one after it
ServerFrame ==
  /\ client.op = "init" /\ client.input = "payload"
  /\ CodecStep([client EXCEPT !.op = "server",
                              !.data = serverFrame(client.opCode, client.payload)
                                         \o client.trailer])

\* only the first bytes of the frame have arrived
Cut ==
  /\ client.op = "server" /\ client.trailer = <<>>
  /\ \E k \in (0..MaxCut) \cup {Len(client.data) - 1} :
       /\ k >= 0 /\ k < Len(client.data)
       /\ CodecStep([client EXCEPT !.op = "cut", !.data = SubSeq(client.data, 1, k)])

Decode ==
  /\ \/ client.op \in {"loopback", "server", "cut"}
     \/ client.op = "init" /\ client.input = "buffer"
  /\ CodecStep([client EXCEPT !.op = "decode", !.from = client.op,
                              !.result = decodeFrameHybi17(client.data)])

NextCodec ==
  \/ Encode
  \/ EncodeLength
  \/ Loopback
  \/ ServerFrame
  \/ Cut
  \/ Decode

SpecCodec == InitCodec /\ [][NextCodec]_vars

(***************************************************************************)
(* What the frame format says about a buffer, read from its bytes without  *)
(* the arithmetic of the decoder.                                          *)
(***************************************************************************)
Bit(byte, weight) == (byte \div weight) % 2 = 1

HeaderRefused(data) ==
  \/ Bit(data[1], 64)                       \* RSV1
  \/ ~Bit(data[1], 128)                     \* FIN clear
  \/ Bit(data[1], 32) \/ Bit(data[1], 16)   \* RSV2, RSV3
  \/ Bit(data[2], 128)                      \* mask bit
  \/ data[1] % 16 \notin {1, 8}             \* opcode

\* bytes of the header, extended length included
HeaderBytes(data) ==
  IF data[2] % 128 = 126 THEN 4 ELSE IF data[2] % 128 = 127 THEN 10 ELSE 2

\* the first frame is in the buffer from its first to its last byte
WholeFrame(data) ==
  /\ Len(data) >= 2
  /\ Len(data) >= HeaderBytes(data)
  /\ LET field == data[2] % 128
     IN IF field = 126 THEN Len(data) - 4 >= data[3] * 256 + data[4]
        ELSE IF field = 127
        THEN /\ \A i \in 3..6 : data[i] = 0
             /\ data[7] < 128
             /\ Len(data) - 10 >=
                  data[7] * 16777216 + data[8] * 65536 + data[9] * 256 + data[10]
        ELSE Len(data) - 2 >= field

\* the payload length the first frame announces; WholeFrame(data) is assumed
Announced(data) ==
  LET field == data[2] % 128
  IN IF field = 126 THEN data[3] * 256 + data[4]
     ELSE IF field = 127
     THEN data[7] * 16777216 + data[8] * 65536 + data[9] * 256 + data[10]
     ELSE field

Decoded == client.op = "decode"

\* the frame of the encoder as a server would send it: mask bit clear, no key
Unmasked(frame) ==
  LET h == HeaderBytes(<<frame[1], frame[2]>>)
  IN <<frame[1], frame[2] - 128>> \o SubSeq(frame, 3, h)
       \o SubSeq(frame, h + 5, Len(frame))

(***************************************************************************)
(* C14: for every payload p, decode(encode(p)) succeeds and yields the     *)
(* payload p, an empty rest and closed = false, so that encoding the       *)
(* decoded payload gives encode(p) again.                                  *)
(***************************************************************************)
C14_RoundTrip ==
  (Decoded /\ client.from = "loopback") =>
    /\ client.result = Returned(FALSE, Payload(client.payload), <<>>)
    /\ encodeFrameHybi17(client.result.payload.bytes) = client.frame

\* C14 as the code has it: decode refuses every frame of encode, for the
\* mask bit encode sets; the same frame without mask bit and masking key,
\* as a server sends it, decodes to the payload p, an empty rest and
\* closed = false, and encoding that payload gives encode(p)
C14_RoundTripOfServerFrame ==
  /\ (Decoded /\ client.from = "loopback") =>
       client.result = Thrown("Masked server frame - not supported")
  /\ (Decoded /\ client.from = "server" /\ client.opCode = kOpCodeText
        /\ client.trailer = <<>>) =>
       /\ client.data = Unmasked(encodeFrameHybi17(client.payload))
       /\ client.result = Returned(FALSE, Payload(client.payload), <<>>)
       /\ encodeFrameHybi17(client.result.payload.bytes)
            = encodeFrameHybi17(client.payload)

C14_Witness ==
  /\ Decoded /\ client.from = "loopback"
  /\ Len(client.payload) = kMaxSingleBytePayloadLength + 1
  /\ client.result.error = "Masked server frame - not supported"

(***************************************************************************)
(* C15: encode(p) is byte 0x81, byte 0x80 | L, the extended length, a      *)
(* 4-byte masking key and the payload XOR-ed with the key; L = len(p) for  *)
(* len <= 125, 126 with a 2-byte big-endian length for 126 <= len <=       *)
(* 65535, 127 with an 8-byte big-endian length for len >= 65536; the       *)
(* encoded length always equals the payload length.                        *)
(***************************************************************************)
\* the 8-byte big-endian image of hi * 2^31 + lo
BigEndian8(n) ==
  <<(n.hi \div 33554432) % 256, (n.hi \div 131072) % 256, (n.hi \div 512) % 256,
    (n.hi \div 2) % 256,
    (n.lo \div 16777216) + 128 * (n.hi % 2), (n.lo \div 65536) % 256,
    (n.lo \div 256) % 256, n.lo % 256>>

FieldFor(n) ==
  IF n.hi = 0 /\ n.lo <= 125 THEN [singleByteLength |-> n.lo, additionalLength |-> <<>>]
  ELSE IF n.hi = 0 /\ n.lo <= 65535
  THEN [singleByteLength |-> 126, additionalLength |-> <<n.lo \div 256, n.lo % 256>>]
  ELSE [singleByteLength |-> 127, additionalLength |-> BigEndian8(n)]

C15_EncodeLayout ==
  /\ client.op = "length" => client.field = FieldFor(client.dataLength)
  /\ client.op = "encode" =>
       LET f == FieldFor(LengthOf(client.payload))
           h == 2 + Len(f.additionalLength)
           frame == client.frame
       IN /\ Len(frame) = h + 4 + Len(client.payload)
          /\ frame[1] = 129
          /\ frame[2] = 128 + f.singleByteLength
          /\ SubSeq(frame, 3, h) = f.additionalLength
          /\ \A i \in 1..Len(client.payload) :
               frame[h + 4 + i] = BitXor(client.payload[i], frame[h + 1 + ((i - 1) % 4)])

(***************************************************************************)
(* C16: decode fails, and returns no payload, for every buffer of at least *)
(* 2 bytes whose header has RSV1 set, FIN clear, RSV2 or RSV3 set, the     *)
(* mask bit set or an opcode other than text and close; for a valid header *)
(* it reports closed = true with the close opcode and closed = false with  *)
(* the text opcode.                                                        *)
(***************************************************************************)
C16_HeaderChecked ==
  (Decoded /\ Len(client.data) >= 2) =>
    LET data == client.data
        r == client.result
    IN IF HeaderRefused(data) THEN r.error # "" /\ r.payload.null
       ELSE /\ r.error = ""
            /\ r.closed <=> data[1] % 16 = kOpCodeClose

\* C16 as the code has it: the same, with closed = true for the close opcode
\* when the frame is whole in the buffer; a close frame that is not yet
\* complete is not reported as closed by the not-yet-complete answer
C16_HeaderCheckedOfWholeFrame ==
  (Decoded /\ Len(client.data) >= 2) =>
    LET data == client.data
        r == client.result
    IN IF HeaderRefused(data) THEN r.error # "" /\ r.payload.null
       ELSE /\ r.error = ""
            /\ data[1] % 16 = kOpCodeText => ~r.closed
            /\ (data[1] % 16 = kOpCodeClose /\ WholeFrame(data)) => r.closed
            /\ r = notComplete(data) => ~r.closed

C16_Witness ==
  /\ Decoded /\ client.from = "server" /\ client.opCode = kOpCodeClose
  /\ client.trailer # <<>> /\ Len(client.payload) = kMaxSingleBytePayloadLength + 1
  /\ client.result.closed /\ client.result.rest = client.trailer

(***************************************************************************)
(* C17: for a buffer that holds fewer bytes than the header plus the       *)
(* announced payload of its first frame, decode returns the                *)
(* not-yet-complete answer (payload null, closed false, rest the whole     *)
(* input) and raises no error; for a complete frame it returns exactly the *)
(* announced payload bytes and the remaining bytes as rest.                *)
(***************************************************************************)
C17_IncompleteOrExact ==
  (Decoded /\ (Len(client.data) >= 2 => ~HeaderRefused(client.data))) =>
    LET data == client.data
        r == client.result
        h == HeaderBytes(data)
    IN IF WholeFrame(data)
       THEN /\ r.error = "" /\ ~r.payload.null
            /\ r.payload.bytes = SubSeq(data, h + 1, h + Announced(data))
            /\ r.rest = SubSeq(data, h + Announced(data) + 1, Len(data))
       ELSE r = notComplete(data)

(***************************************************************************)
(* C18: setBreakpoint(-1) and setBreakpoint(0) print 'Line should be a     *)
(* positive value', send no protocol request and leave knownBreakpoints    *)
(* unchanged, whether or not the session is paused.                        *)
(***************************************************************************)
NotPositive == {LineNumber("setBreakpoint", -1), LineNumber("setBreakpoint", 0)}

LineTaken(lines) == ghost'.last.a = "line" /\ ghost'.last.line \in lines

C18_Step ==
  LineTaken(NotPositive) =>
    /\ ghost'.out = "Line should be a positive value"
    /\ client'.lastId = client.lastId
    /\ client'.pending = client.pending
    /\ session'.knownBreakpoints = session.knownBreakpoints

C18_NotPositiveRefused == [][C18_Step]_vars

(***************************************************************************)
(* C19: in control mode an empty line evaluates the last non-empty command *)
(* again and leaves lastCommand as it is, so any number of empty lines in  *)
(* a row repeat the same command; a line exec <text> is evaluated and      *)
(* remembered as exec("<text>"), so an empty line after it runs            *)
(* exec("<text>") again.                                                   *)
(***************************************************************************)
\* the requests sent by the step
NewRequests == {client'.pending[id] : id \in DOMAIN client'.pending \ DOMAIN client.pending}

IsExecOf(code, text) ==
  /\ code.c = "exec" /\ code.state = "literal"
  /\ Head(code.x) = DQ /\ code.x[Len(code.x)] = DQ
  /\ stringLiteralValue(code.x) = text

\* what the line typed is evaluated as
EvaluatedAs(code, typed) ==
  IF typed.c = "exec" /\ typed.state = "bare"
  THEN /\ IsExecOf(code, typed.x)
       /\ \A q \in NewRequests : q.a.expression = typed.x
       /\ client.socket => NewRequests # {}
  ELSE /\ code = typed
       /\ typed.c \in ResumeVerbs =>
            /\ \A q \in NewRequests : q.m = ResumeMethod(typed.c)
            /\ client.socket => NewRequests # {}

C19_Step ==
  (ghost'.last.a = "line" /\ session.replEval = "controlEval") =>
    LET line == ghost'.last.line
    IN IF line = EmptyLine
       THEN /\ session'.lastCommand = session.lastCommand
            /\ ghost'.code = session.lastCommand
            /\ ghost.typed # NoValue => EvaluatedAs(ghost'.code, ghost.typed)
       ELSE /\ session'.lastCommand = ghost'.code
            /\ EvaluatedAs(ghost'.code, line)

C19_EmptyLineRepeats == [][C19_Step]_vars

C19_Witness ==
  /\ ghost.last.a = "line" /\ ghost.last.line = EmptyLine
  /\ env.repeats = MaxRepeats
  /\ ghost.typed = LineBare("exec", <<"x", DQ>>)
  /\ session.lastCommand = LineLiteral("exec", <<DQ, "x", BS, DQ, DQ>>)
  /\ ghost.code = session.lastCommand
  /\ client.lastId = NBoot + 3

(***************************************************************************)
(* C20: exec, the watchers and the input of the debug REPL are evaluated   *)
(* with Debugger.evaluateOnCallFrame on the selected frame exactly when a  *)
(* frame is selected, and with Runtime.evaluate otherwise; once a resume   *)
(* verb was given, evaluation is global until the next Debugger.paused.    *)
(***************************************************************************)
Evaluations ==
  {q \in NewRequests : q.m \in {"Debugger.evaluateOnCallFrame", "Runtime.evaluate"}}

C20_Step ==
  \A q \in Evaluations :
    /\ IF session'.selectedFrame # Null
       THEN /\ q.m = "Debugger.evaluateOnCallFrame"
            /\ q.a.callFrameId = session'.selectedFrame.callFrameId
       ELSE q.m = "Runtime.evaluate"
    /\ ghost'.since = "cleared" => q.m = "Runtime.evaluate"
    /\ ghost'.since = "paused" => q.m = "Debugger.evaluateOnCallFrame"

C20_EvaluatedWhereSelected == [][C20_Step]_vars

\* exec after a resume verb that followed a pause: in the global scope
C20_Witness ==
  /\ ghost.last.a = "line" /\ ghost.last.line \in {LineOf("exec", x, 0) : x \in Exprs}
  /\ session.lastCommand = ghost.last.line
  /\ env.pauses >= 1 /\ ghost.since = "cleared" /\ session.selectedFrame = Null
  /\ \E id \in DOMAIN client.pending :
       /\ id = client.lastId
       /\ client.pending[id].m = "Runtime.evaluate"
       /\ \E j \in DOMAIN client.pending : client.pending[j].m \in {ResumeMethod(c) : c \in ResumeVerbs}

(***************************************************************************)
(* list(delta): the SourceSnippet of the selected frame and how it is      *)
(* printed (lines 677-723, 889-896).  The source of a script is the        *)
(* sequence of its lines, scriptSource.split('\n'); the text of line j is  *)
(* written j.                                                              *)
(***************************************************************************)
MaxSource == 4      \* lines of the source of a script
MaxDelta == 3       \* |delta| of list(delta)

\* String(n).length for the numbers of this model
digits(n) == IF n < 0 THEN (IF n > -10 THEN 2 ELSE 3) ELSE IF n < 10 THEN 1 ELSE 2

Max(a, b) == IF a >= b THEN a ELSE b

\* leftPad(n, prefix, maxN) (lines 438-444): the prefix, the spaces, the number
leftPad(n, prefix, maxN) ==
  LET nchars == Max(2, digits(maxN)) + 1
      nspaces == nchars - digits(n) - 1
  IN [prefix |-> prefix, nspaces |-> nspaces, s |-> n]

\* Array.prototype.slice(start, end): as Buffer.slice, a negative index counts
\* from the end and the result stays within the array
arraySlice(lines, start, end) == slice(lines, Num(start), Num(end))

\* knownBreakpoints.forEach (lines 698-705): a breakpoint without a location
\* is skipped
isBreakpoint(knownBreakpoints, scriptId, i) ==
  \E b \in 1..Len(knownBreakpoints) :
    /\ knownBreakpoints[b].location # Null
    /\ scriptId = knownBreakpoints[b].location.scriptId
    /\ i = knownBreakpoints[b].location.lineNumber + 1

\* SourceSnippet[util.inspect.custom] (lines 684-715); colors are off, so
\* markSourceColumn leaves the text of the current line as it is
inspectSourceSnippet(snippet, knownBreakpoints) ==
  LET lineNumber == snippet.lineNumber
      delta == snippet.delta
      start == Max(1, lineNumber - delta + 1)
      end == lineNumber + delta + 1
      lines == arraySlice(snippet.scriptSource, start - 1, end)
  IN [offset \in 1..Len(lines) |->
        LET i == start + (offset - 1)
            isCurrent == i = lineNumber + 1
            prefixChar == IF isCurrent THEN ">"
                          ELSE IF isBreakpoint(knownBreakpoints, snippet.scriptId, i)
                          THEN "*" ELSE " "
        IN [mark |-> leftPad(i, prefixChar, end), lineText |-> lines[offset]]]

\* The inputs of list: the source of the current script, the current line,
\* delta and the breakpoints known, in the current script and in another
SnippetSources == {[j \in 1..n |-> j] : n \in 1..MaxSource}
Deltas == (0 - MaxDelta)..MaxDelta
SnippetBreakpoints ==
  {<<>>,
   << [location |-> Location("1", <<>>, 0)] >>,
   << [location |-> Location("2", <<>>, 1)] >>,
   << [location |-> Null], [location |-> Location("1", <<>>, 2)] >>,
   << [location |-> Location("1", <<>>, 1)], [location |-> Location("2", <<>>, 0)],
      [location |-> Location("1", <<>>, 3)] >>}

SnippetInputs ==
  {[op |-> "init",
    snippet |-> [scriptId |-> "1", lineNumber |-> l, delta |-> d, scriptSource |-> src],
    knownBreakpoints |-> bs, out |-> <<>>, again |-> <<>>] :
     src \in SnippetSources, l \in 0..(MaxSource - 1), d \in Deltas,
     bs \in SnippetBreakpoints}

\* the target is paused at a line of the source
InitList ==
  /\ client \in {c \in SnippetInputs : c.snippet.lineNumber < Len(c.snippet.scriptSource)}
  /\ inspector = Null /\ session = Null /\ tasks = Null /\ env = Null
  /\ ghost = [last |-> [a |-> "init"]]

\* list(delta) (lines 889-896): the snippet is made and printed
List ==
  /\ client.op = "init"
  /\ CodecStep([client EXCEPT
       !.op = "list",
       !.out = inspectSourceSnippet(client.snippet, client.knownBreakpoints)])

\* list(delta) once more, nothing having changed
ListAgain ==
  /\ client.op = "list"
  /\ CodecStep([client EXCEPT
       !.op = "again",
       !.again = inspectSourceSnippet(client.snippet, client.knownBreakpoints)])

NextList ==
  \/ List
  \/ ListAgain

SpecList == InitList /\ [][NextList]_vars

\* the window of the claim, and the mark of a line of it
Window(c) ==
  LET L == c.snippet.lineNumber + 1
      lo == Max(1, L - c.snippet.delta)
      hi == IF L + c.snippet.delta < Len(c.snippet.scriptSource)
            THEN L + c.snippet.delta ELSE Len(c.snippet.scriptSource)
  IN IF hi >= lo THEN [k \in 1..(hi - lo + 1) |-> lo + k - 1] ELSE <<>>

MarkOf(c, i) ==
  IF i = c.snippet.lineNumber + 1 THEN ">"
  ELSE IF \E b \in 1..Len(c.knownBreakpoints) :
            /\ c.knownBreakpoints[b].location # Null
            /\ c.knownBreakpoints[b].location.scriptId = c.snippet.scriptId
            /\ c.knownBreakpoints[b].location.lineNumber + 1 = i
  THEN "*" ELSE " "

Printed(c) ==
  /\ Len(c.out) = Len(Window(c))
  /\ \A k \in 1..Len(c.out) :
       /\ c.out[k].mark.s = Window(c)[k]
       /\ c.out[k].lineText = c.snippet.scriptSource[Window(c)[k]]
       /\ c.out[k].mark.prefix = MarkOf(c, Window(c)[k])

\* C21: list(delta) prints exactly the source lines max(1, L - delta) ..
\* min(lineCount, L + delta), L being the 1-based current line, marks line L
\* with '>', the other lines that carry a known breakpoint of the current
\* script with '*' and the rest with a space; and list(k) twice with
\* unchanged state prints the same.
C21_ListWindow ==
  /\ client.op \in {"list", "again"} => Printed(client)
  /\ client.op = "again" => client.again = client.out

\* the same for the deltas that are not negative
C21_ListWindowOfDelta ==
  (client.op \in {"list", "again"} /\ client.snippet.delta >= 0) =>
    /\ Printed(client)
    /\ client.op = "again" => client.again = client.out

(***************************************************************************)
(* The debug REPL: entered with the repl verb, left with Ctrl+C or with    *)
(* the exit of the REPL (lines 1194-1244).                                 *)
(***************************************************************************)
MaxDebug == 1       \* lines the user enters in the debug REPL

\* What a user may type at the prompt '> ': an expression, and the names of
\* verbs of the control context
DebugTyped == DebugLines \cup {Line("cont"), Line("repl")}

\* a line at the prompt 'debug> '
ControlLine(Cmds) ==
  /\ session.replEval = "controlEval"
  /\ UserLine(Cmds)

\* a line at the prompt '> '
DebugLine ==
  /\ Alive
  /\ inspector.repl /\ ~inspector.stdinPaused
  /\ session.replEval = "debugEval"
  /\ env.dlines < MaxDebug
  /\ \E line \in DebugTyped :
       Turn(replLine([Cur EXCEPT !.e.dlines = @ + 1, !.g.out = ""], line),
            [a |-> "line", line |-> line])

CmdsDebug == {Line("repl"), Line("cont")}

NextDebug ==
  \/ ListenHint \/ FetchOk \/ Upgrade \/ AnswerBootstrap
  \/ TargetRespond \/ PausedEvent
  \/ ControlLine(CmdsDebug) \/ DebugLine \/ Sigint \/ ReplExit

SpecDebug == Init /\ [][NextDebug]_vars

\* the REPL is in control mode: evaluator, context and prompt
ControlMode(s) ==
  /\ s.replEval = "controlEval" /\ s.context = "control" /\ s.prompt = "debug> "
  /\ ~s.exitDebugRepl

DebugMode(s) ==
  /\ s.replEval = "debugEval" /\ s.context = "debug" /\ s.prompt = "> "
  /\ s.exitDebugRepl

\* the repl verb is given at the prompt 'debug> '
EntersDebug ==
  /\ ghost'.last.a = "line" /\ session.replEval = "controlEval"
  /\ ghost'.last.line = Line("repl")

\* a line is given at the prompt '> '
InDebug == ghost'.last.a = "line" /\ session.replEval = "debugEval"

\* the history readline reads and writes
RliBuffer(s) == s.arrays[s.rliHistory]

C22_Enter ==
  EntersDebug =>
    /\ ControlMode(session) /\ DebugMode(session')
    /\ ControlBuffer(session') = RliBuffer(Entered(ghost'.last.line))
    /\ RliBuffer(session') = DebugBuffer(session)

C22_Inside ==
  InDebug =>
    /\ DebugMode(session) /\ DebugMode(session')
    /\ ControlBuffer(session') = ControlBuffer(session)
    /\ session'.lastCommand = session.lastCommand
    /\ session'.selectedFrame = session.selectedFrame
    /\ inspector' = inspector
    /\ \A q \in NewRequests :
         /\ q.m \in {"Debugger.evaluateOnCallFrame", "Runtime.evaluate"}
         /\ q.a.expression = ghost'.last.line
    /\ client.socket => NewRequests # {}

\* what exitDebugRepl is to do
Leaves ==
  /\ DebugMode(session) /\ ControlMode(session')
  /\ RliBuffer(session') = ControlBuffer(session)
  /\ DebugBuffer(session') = RliBuffer(session)
  /\ session'.arrays[session'.history.debug] = RliBuffer(session)

C22_Sigint == ghost'.last.a = "sigint" => Leaves

C22_Exit == (ghost'.last.a = "exit" /\ session.exitDebugRepl) => Leaves

MaxHead == 1        \* a chunk is cut after at most this many bytes, or one before its end

OpenBrace == 123
CloseBrace == 125
IsDigit(b) == b >= 48 /\ b <= 57

NoObject ==
  [id |-> 0, run |-> FALSE, method |-> "", params |-> NoValue, result |-> NoValue,
   error |-> Null, syntaxError |-> FALSE]

\* JSON.parse of the members between the braces
RECURSIVE parseMembers(_, _)
parseMembers(bytes, obj) ==
  IF bytes = <<>> \/ obj.syntaxError THEN obj
  ELSE LET b == Head(bytes)
           o == [obj EXCEPT !.run = IsDigit(b)]
       IN parseMembers(Tail(bytes),
            CASE IsDigit(b) ->
                   [o EXCEPT !.id = IF obj.run THEN @ * 10 + (b - 48) ELSE b - 48]
              [] b = 69 -> [o EXCEPT !.error = TargetError]
              [] b = 82 -> [o EXCEPT !.result = [value |-> "r1"]]
              [] b = 86 -> [o EXCEPT !.result = EmptyObj]
              [] b = 80 -> [o EXCEPT !.method = "Debugger.paused",
                                     !.params = PausedParams]
              [] b = 81 -> [o EXCEPT !.method = "Debugger.resumed",
                                     !.params = EmptyObj]
              [] b = 88 -> [o EXCEPT !.method = "Profiler.consoleProfileStarted",
                                     !.params = EmptyObj]
              [] b = 67 -> [o EXCEPT !.method = "Runtime.executionContextCreated",
                                     !.params = EmptyObj]
              [] b = 79 -> [o EXCEPT !.method = "options.changed",
                                     !.params = EmptyObj]
              [] b = 32 -> o
              [] OTHER -> [o EXCEPT !.syntaxError = TRUE])

\* payloadStr[0] !== '{' || lastChar !== '}' (line 243)
looksLikeJSON(payloadStr) ==
  /\ payloadStr # <<>>
  /\ payloadStr[1] = OpenBrace
  /\ payloadStr[Len(payloadStr)] = CloseBrace

\* JSON.parse(payloadStr) (line 248), of a text that looks like JSON
JSONparse(payloadStr) ==
  IF Len(payloadStr) < 2 THEN [NoObject EXCEPT !.syntaxError = TRUE]
  ELSE parseMembers(SubSeq(payloadStr, 2, Len(payloadStr) - 1), NoObject)

\* the digits of an id
RECURSIVE numberText(_)
numberText(n) ==
  IF n < 10 THEN <<48 + n>> ELSE numberText(n \div 10) \o <<48 + (n % 10)>>

\* JSON.stringify of a response of the peer, and the frame that carries it
responseText(f) ==
  <<OpenBrace>> \o numberText(f.id)
    \o (IF f.error # Null THEN <<69>> ELSE <<>>)
    \o (IF f.result = EmptyObj THEN <<86>>
        ELSE IF f.result # Null THEN <<82>> ELSE <<>>)
    \o <<CloseBrace>>

textFrame(payloadStr) == serverFrame(kOpCodeText, payloadStr)

\* throw new Error(message): the exception leaves the listener of 'data'
throw(w, message) == [w EXCEPT !.thrown = TRUE, !.g.error = message]

\* this.emit('debugEvent', method, params); this.emit(method, params)
\* (lines 262-263): the listener of debugEvent is handleDebugEvent, and no
\* one listens to the event under its own name; an exception of a listener
\* leaves emit
emitEvent(w, method, params) ==
  LET w1 == handleDebugEvent(
              [w EXCEPT !.g.emitted =
                 Append(@, [on |-> "client", event |-> "debugEvent", arg |-> method])],
              method, params)
  IN IF w1.thrown THEN w1
     ELSE [w1 EXCEPT !.g.emitted =
             Append(@, [on |-> "client", event |-> method, arg |-> method])]

\* lines 254-266: the message is dispatched.  The handler of a response
\* calls isEmpty(result), which throws if there is neither error nor result.
dispatch(w, payload) ==
  IF payload.id # 0
  THEN IF /\ payload.id \in DOMAIN w.c.pending
          /\ payload.error = Null /\ payload.result = NoValue
       THEN throw([w EXCEPT !.c.pending = [j \in DOMAIN @ \ {payload.id} |-> @[j]]],
                  "Cannot convert undefined or null to object")
       ELSE dispatchResponse(w, Response(payload.id, payload.error, payload.result))
  ELSE IF payload.method # ""
  THEN emitEvent(w, payload.method, payload.params)
  ELSE throw(w, "Unsupported response")

\* the loop of lines 226-267
RECURSIVE decodeLoop(_)
decodeLoop(w) ==
  IF w.thrown \/ ~(Len(w.c.unprocessed) > 2) THEN w
  ELSE LET d == decodeFrameHybi17(w.c.unprocessed)
       IN IF d.error # "" THEN throw(w, d.error)
          ELSE LET w1 == [w EXCEPT !.c.unprocessed = d.rest]
                   payloadStr == d.payload.bytes
               IN IF d.closed THEN reset(w1)
                  ELSE IF d.payload.null THEN w1
                  ELSE IF ~looksLikeJSON(payloadStr)
                  THEN throw(w1, "Payload does not look like JSON")
                  ELSE IF JSONparse(payloadStr).syntaxError
                  THEN throw(w1, "SyntaxError")
                  ELSE decodeLoop(dispatch([w1 EXCEPT !.g.dispatched = Append(@, payloadStr)],
                                           JSONparse(payloadStr)))

\* Client._handleChunk (lines 223-268) on the bytes of a chunk
Client_handleChunk(w, chunk) ==
  decodeLoop([w EXCEPT !.c.unprocessed = @ \o chunk])

(***************************************************************************)
(* A bare ProtocolClient and its peer, on bytes.  The peer sends the       *)
(* answers to the calls in flight, answers no one waits for, events and    *)
(* close frames, several to a chunk; the transport may deliver a chunk in  *)
(* two pieces.                                                             *)
(***************************************************************************)
RECURSIVE Flatten(_)
Flatten(q) == IF q = <<>> THEN <<>> ELSE Head(q) \o Flatten(Tail(q))

\* a close frame without payload, and one with a status code
CloseFrames == {<<136, 0>>, <<136, 2, 3, 232>>}

\* an event of a domain without agent
EventFrame == textFrame(<<OpenBrace, 88, CloseBrace>>)

\* the answers to the calls in flight, and the event
UnitFrames ==
  {textFrame(responseText(PeerAnswer(id, client.pending[id].a))) : id \in FutureIds}
    \cup {EventFrame}

\* a frame, a frame and a close frame after it, a close frame and a frame
\* after it
WireChunks ==
  UnitFrames \cup CloseFrames
    \cup {a \o c : a \in UnitFrames, c \in CloseFrames}
    \cup {c \o a : c \in CloseFrames, a \in UnitFrames}

CutPoints(chunk) == {k \in (1..MaxHead) \cup {Len(chunk) - 1} : k >= 1 /\ k < Len(chunk)}

\* the bytes the transport still holds belong to the connection that is open
Held == env.rest.bytes # <<>> /\ env.rest.conn = env.conns

Receive(w, chunk, rest) ==
  Turn(Client_handleChunk([w EXCEPT !.g.emitted = <<>>, !.g.error = "",
                                    !.e.rest = [conn |-> env.conns, bytes |-> rest]],
                          chunk),
       [a |-> "data", chunk |-> chunk])

\* the answers to the bootstrap arrive in one chunk
WireBootstrap ==
  /\ Alive /\ Connected /\ ~Held /\ BootIds # {}
  /\ Receive(Cur, Flatten([i \in 1..Len(BootstrapAnswers) |->
                             textFrame(responseText(BootstrapAnswers[i]))]), <<>>)

\* a chunk arrives whole
ClientData ==
  /\ Alive /\ Connected /\ ~Held
  /\ \E chunk \in WireChunks : Receive(Cur, chunk, <<>>)

\* the first bytes of a frame arrive
ClientDataHead ==
  /\ Alive /\ Connected /\ ~Held
  /\ \E chunk \in UnitFrames \cup CloseFrames : \E k \in CutPoints(chunk) :
       Receive(Cur, SubSeq(chunk, 1, k), SubSeq(chunk, k + 1, Len(chunk)))

\* ... and the bytes that were held back
ClientDataRest ==
  /\ Alive /\ Connected /\ Held
  /\ Receive(Cur, env.rest.bytes, <<>>)

\* reset() is called on a client that is reset
ClientResetAgain ==
  /\ Alive
  /\ ~client.http /\ ~client.socket
  /\ Turn(reset(Cur), [a |-> "reset", again |-> TRUE])

WireConnect == Alive /\ ClientConnect
WireUpgrade == Alive /\ ClientUpgrade
\* a call of the harness, for a value
WireCall ==
  /\ Alive
  /\ Len(ghost.futures) < MaxCalls
  /\ LET f == Len(ghost.futures) + 1
         w == [Cur EXCEPT !.g.futures =
                 Append(@, [n |-> 0, state |-> "pending", v |-> NoValue])]
     IN Turn(callMethod(w, "Runtime.evaluate", [expression |-> "value"],
                        [k |-> "future", f |-> f]),
             [a |-> "call"])
WireReset == Alive /\ ClientReset

NextWire ==
  \/ WireConnect \/ WireUpgrade \/ WireBootstrap
  \/ WireCall \/ ClientData \/ ClientDataHead \/ ClientDataRest
  \/ WireReset \/ ClientResetAgain \/ SocketClose

SpecWire == InitClient /\ [][NextWire]_vars

(***************************************************************************)
(* Properties of the protocol client: reset, the ids, the not-connected    *)
(* error, the error bodies, the calls a reset leaves behind.               *)
(***************************************************************************)
FreshClient ==
  [http |-> FALSE, lastId |-> 0, socket |-> FALSE, pending |-> EmptyFn,
   unprocessed |-> <<>>]

C23_Step ==
  /\ reset(reset(Cur)) = reset(Cur)
  /\ ghost'.last.a = "reset" =>
       /\ client' = FreshClient
       /\ inspector'.exit = -1
       /\ "again" \in DOMAIN ghost'.last =>
            /\ client = FreshClient
            /\ UNCHANGED <<client, inspector, session, tasks, env>>
            /\ ghost'.futures = ghost.futures

\* C23: reset() leaves the client with no socket or HTTP handle, an empty
\* unprocessed buffer, an empty pending table and lastId = 0, and calling it
\* again in that state changes nothing and raises no error.
C23_ResetIdempotent == [][C23_Step]_vars

\* reset() was called twice in a row, the first time on a client with a call
\* in flight and the first bytes of a frame in its buffer
C23_Witness ==
  /\ ghost.last = [a |-> "reset", again |-> TRUE]
  /\ client = FreshClient
  /\ \E f \in DOMAIN ghost.futures : ghost.futures[f].state = "pending"
  /\ env.rest.bytes # <<>> /\ env.rest.conn = env.conns

(***************************************************************************)
(* The frames a buffer holds, read from its bytes by the frame format.     *)
(***************************************************************************)
FrameBytes(data) == HeaderBytes(data) + Announced(data)

\* a whole close frame is in the buffer, after whole frames only
RECURSIVE ClosePresent(_)
ClosePresent(data) ==
  /\ WholeFrame(data)
  /\ \/ data[1] % 16 = kOpCodeClose
     \/ ClosePresent(SubSeq(data, FrameBytes(data) + 1, Len(data)))

\* the payloads of the whole text frames that come before any close frame
RECURSIVE TextsBeforeClose(_)
TextsBeforeClose(data) ==
  IF ~WholeFrame(data) \/ data[1] % 16 = kOpCodeClose THEN {}
  ELSE {SubSeq(data, HeaderBytes(data) + 1, FrameBytes(data))}
         \cup TextsBeforeClose(SubSeq(data, FrameBytes(data) + 1, Len(data)))

\* the bytes the client has after the step: its buffer and the chunk
Received == client.unprocessed \o ghost'.last.chunk

\* the calls whose futures the step settles
SettledIds ==
  {id \in FutureIds :
     ghost'.futures[client.pending[id].k.f].n > ghost.futures[client.pending[id].k.f].n}

AnswerText(id) == responseText(PeerAnswer(id, client.pending[id].a))

C29_Step ==
  ghost'.last.a = "data" =>
    /\ \A id \in SettledIds : AnswerText(id) \in TextsBeforeClose(Received)
    /\ ClosePresent(Received) =>
         /\ client'.pending = EmptyFn /\ client'.unprocessed = <<>>
         /\ client'.lastId = 0 /\ ~client'.socket
         /\ env'.wire = "closing"

\* C29: whenever a complete close frame has been received, whatever its
\* payload length and wherever it falls within a chunk, the client resets
\* (pending, unprocessed and lastId cleared) and close is emitted (the socket
\* is destroyed, so that its close is due); the frames that follow the close
\* frame in the buffer are not dispatched.
C29_CloseFrameResets == [][C29_Step]_vars

\* a close frame that is the last two bytes of the buffer
RECURSIVE CloseAtEnd(_)
CloseAtEnd(data) ==
  /\ Len(data) >= 2
  /\ \/ Len(data) = 2 /\ data[1] % 16 = kOpCodeClose
     \/ /\ WholeFrame(data) /\ data[1] % 16 # kOpCodeClose
        /\ CloseAtEnd(SubSeq(data, FrameBytes(data) + 1, Len(data)))

\* the same, but for a close frame without payload at the end of the buffer
C29_CloseFrameResetsUnlessLast ==
  [][ghost'.last.a = "data" /\ ~CloseAtEnd(Received) => C29_Step]_vars

NewIds == DOMAIN client'.pending \ DOMAIN client.pending

C24_Step ==
  /\ 0 \notin DOMAIN client'.pending
  /\ DOMAIN client'.pending \subseteq 1..client'.lastId
  /\ client'.lastId > client.lastId =>
       /\ NewIds = (client.lastId + 1)..client'.lastId
       /\ \A id \in DOMAIN client.pending :
            id \in DOMAIN client'.pending => client'.pending[id] = client.pending[id]
  /\ client'.lastId <= client.lastId => NewIds = {}
  /\ client'.lastId < client.lastId =>
       client'.lastId = 0 /\ client'.pending = EmptyFn
  /\ (ghost'.last.a = "call" /\ client.socket) =>
       /\ client'.lastId = client.lastId + 1
       /\ client'.pending[client'.lastId].k = [k |-> "future", f |-> Len(ghost'.futures)]

\* C24: within one connection (between two resets) the ids allocated by
\* successive callMethod calls are 1, 2, 3, ... in call order; no request is
\* sent with id 0, and no two entries of the pending table share an id.
C24_IdsInCallOrder == [][C24_Step]_vars

\* two calls of the harness in flight on one connection, after the eight
\* calls of the bootstrap
C24_Witness ==
  /\ ghost.last.a = "call"
  /\ client.lastId = Len(BootstrapCalls) + 2
  /\ \A f \in {1, 2} :
       client.pending[Len(BootstrapCalls) + f].k = [k |-> "future", f |-> f]

\* the peer has closed the connection and no one has reset the client
SocketOpen == env.wire = "up" /\ client.socket

NotConnectedOnly ==
  /\ ghost'.futures[Len(ghost'.futures)] =
       [n |-> 1, state |-> "rejected", v |-> NotConnected]
  /\ client' = client
  /\ NewRequests = {}

\* C25: callMethod invoked while no socket is open fails at call time with
\* the not-connected error and has no other effect: no id is allocated, no
\* pending entry is inserted and nothing is written.
C25_NotConnected == [][(ghost'.last.a = "call" /\ ~SocketOpen) => NotConnectedOnly]_vars

\* the same for a client whose _socket is null
C25_NotConnectedOfNull ==
  [][(ghost'.last.a = "call" /\ ~client.socket) => NotConnectedOnly]_vars

NextPeer ==
  \/ ClientConnect \/ ClientUpgrade \/ ClientBootstrap
  \/ ClientCall \/ ClientChunk \/ ClientReset \/ SocketClose \/ PeerClose

SpecPeer == InitClient /\ [][NextPeer]_vars

\* the answers of a chunk to calls in flight, the first answer to an id only,
\* and none after a close frame
Answered(frames) ==
  {id \in DOMAIN client.pending :
     \E i \in 1..Len(frames) :
       /\ frames[i].t = "response" /\ frames[i].id = id
       /\ \A j \in 1..(i - 1) :
            frames[j].t # "close" /\ ~(frames[j].t = "response" /\ frames[j].id = id)}

AnswerTo(frames, id) ==
  frames[CHOOSE i \in 1..Len(frames) :
           /\ frames[i].t = "response" /\ frames[i].id = id
           /\ \A j \in 1..(i - 1) : ~(frames[j].t = "response" /\ frames[j].id = id)]

FutureOf(id) == client.pending[id].k.f

C27_Step ==
  (/\ ghost'.last.a = "chunk"
   /\ \A i \in 1..Len(ghost'.last.frames) : ghost'.last.frames[i].t # "close") =>
    LET frames == ghost'.last.frames
        failed == {id \in Answered(frames) \cap FutureIds :
                     AnswerTo(frames, id).error # Null}
    IN /\ \A id \in failed :
            ghost'.futures[FutureOf(id)] =
              [n |-> 1, state |-> "rejected",
               v |-> [code |-> AnswerTo(frames, id).error.code,
                      message |-> <<AnswerTo(frames, id).error.message, " - ",
                                    AnswerTo(frames, id).error.data>>]]
       /\ \A f \in DOMAIN ghost.futures :
            (\A id \in Answered(frames) \cap FutureIds : FutureOf(id) # f) =>
              ghost'.futures[f] = ghost.futures[f]
       /\ client'.socket = client.socket /\ client'.http = client.http
       /\ client'.lastId = client.lastId
       /\ DOMAIN client'.pending = DOMAIN client.pending \ Answered(frames)
       /\ \A id \in DOMAIN client'.pending : client'.pending[id] = client.pending[id]
       /\ env'.wire = env.wire
       /\ inspector'.exit = -1

\* C27: a response with an error body rejects only the future of the call
\* with that id, with an error whose message is '<message> - <data>' and
\* whose code is the response's code; the connection is not torn down: the
\* socket, lastId and every other pending entry are unchanged.
C27_ErrorRejectsOneCall == [][C27_Step]_vars

\* the error has rejected one call while another call is still in flight
C27_Witness ==
  /\ ghost.last.a = "chunk"
  /\ \E i \in 1..Len(ghost.last.frames) :
       ghost.last.frames[i].t = "response" /\ ghost.last.frames[i].error # Null
  /\ \E f \in DOMAIN ghost.futures :
       /\ ghost.futures[f].state = "rejected"
       /\ ghost.futures[f].v = [code |-> TargetError.code,
                                message |-> <<TargetError.message, " - ", TargetError.data>>]
       /\ \E g \in DOMAIN ghost.futures : g # f /\ ghost.futures[g].n = 0
  /\ FutureIds # {}
  /\ client.socket /\ env.wire = "up"

\* the calls whose entry is in the pending table
InFlight == {FutureOf(id) : id \in FutureIds}

C28_Step ==
  /\ \A f \in DOMAIN ghost.futures :
       ghost'.futures[f] # ghost.futures[f] =>
         /\ ghost'.last.a = "chunk"
         /\ \E id \in Answered(ghost'.last.frames) \cap FutureIds : FutureOf(id) = f
  /\ ghost'.last.a = "reset" =>
       client'.pending = EmptyFn /\ ghost'.futures = ghost.futures
  /\ \A id \in NewIds :
       client'.pending[id].k.k = "future" =>
         client'.pending[id].k.f \notin DOMAIN ghost.futures

\* C28: reset() neither resolves nor rejects the futures of the calls that
\* are pending when it runs, and those futures are never settled afterwards:
\* no response received after the reset, including one on a later connection
\* that carries the same id, settles a call made before the reset.
C28_ResetForgetsCalls == [][C28_Step]_vars

\* the first call was in flight at a reset and is still unsettled; the
\* second call, made on the next connection under the same id, has been
\* answered
C28_Witness ==
  /\ ghost.last.a = "chunk"
  /\ Len(ghost.futures) = 2
  /\ ghost.futures[1].n = 0 /\ 1 \notin InFlight
  /\ ghost.futures[2].n = 1 /\ ghost.futures[2].state = "resolved"
  /\ ghost.last.frames[1].t = "response"
  /\ ghost.last.frames[1].id = Len(BootstrapCalls) + 1
  /\ env.conns = 2

(***************************************************************************)
(* A session whose peer violates the protocol: the bytes of the chunk go   *)
(* through Client._handleChunk, which throws inside the listener of the    *)
(* socket's data (lines 223-268); the exception is uncaught and reaches    *)
(* handleUnexpectedError (lines 1534-1543).                                *)
(***************************************************************************)
\* a binary frame, a masked frame, a fragment, a text that is not an object,
\* a text that is not JSON, an object with neither id nor method, and a
\* result without id
Violations ==
  {<<130, 1, 0>>, <<129, 129, 0>>, <<1, 2, OpenBrace, CloseBrace>>,
   textFrame(<<91, 93>>),
   textFrame(<<OpenBrace, 33, CloseBrace>>),
   textFrame(<<OpenBrace, CloseBrace>>),
   textFrame(<<OpenBrace, 86, CloseBrace>>)}

DataViolation ==
  /\ Alive /\ Connected
  /\ \E chunk \in Violations :
       Turn(Client_handleChunk([Cur EXCEPT !.g.emitted = <<>>, !.g.error = ""], chunk),
            [a |-> "violation", chunk |-> chunk])

CmdsViolation == {Line("restart"), Line("cont")}

NextViolation ==
  \/ ListenHint \/ FetchOk \/ Upgrade \/ AnswerBootstrap
  \/ SocketClose
  \/ TargetRespond \/ PausedEvent
  \/ UserLine(CmdsViolation)
  \/ DataViolation

SpecViolation == Init /\ [][NextViolation]_vars

\* C26: a protocol violation on the receive path (malformed or unsupported
\* frame, a payload that is not a JSON object, a message with neither id nor
\* method) is surfaced as the client's error event and is fatal only to the
\* connection: the session stays alive and the user can recover with restart.
C26_ViolationKeepsSession ==
  [][ghost'.last.a = "violation" => inspector'.exit = -1]_vars

\* what a violation does: the error is thrown, no event is emitted, the
\* child is killed and the process ends with code 1
C26_ViolationEndsProcess ==
  [][ghost'.last.a = "violation" =>
       /\ ghost'.error # "" /\ ghost'.emitted = <<>>
       /\ inspector'.exit = 1
       /\ inspector.child \notin env'.children]_vars

(***************************************************************************)
(* A session whose target sends events, one or several to a chunk: of the  *)
(* Debugger agent (paused, resumed), of the Runtime agent, of a domain     *)
(* that is no property of the inspector (Profiler) and of a name that is a *)
(* property of the inspector but no agent (options).                       *)
(***************************************************************************)
MaxEvents == 2      \* events in one chunk

EventLetters == {80, 81, 67, 88, 79}

EventMethod(b) == JSONparse(<<OpenBrace, b, CloseBrace>>).method

DataEvents ==
  /\ Alive /\ Connected
  /\ env.pauses < MaxPauses
  /\ \E letters \in SeqsUpTo(EventLetters, MaxEvents) \ {<<>>} :
       Turn(Client_handleChunk(
              [Cur EXCEPT !.e.pauses = @ + 1, !.g.error = ""],
              Flatten([i \in 1..Len(letters) |->
                         textFrame(<<OpenBrace, letters[i], CloseBrace>>)])),
            [a |-> "events",
             methods |-> [i \in 1..Len(letters) |-> EventMethod(letters[i])]])

NextEvents ==
  \/ ListenHint \/ FetchOk \/ Upgrade \/ AnswerBootstrap
  \/ TargetRespond
  \/ DataEvents

SpecEvents == Init /\ [][NextEvents]_vars

\* what the claim has one event emit, and several events in their order
EmissionsOf(method) ==
  <<[on |-> "client", event |-> "debugEvent", arg |-> method]>>
    \o (IF split(method)[1] \in domainNames
        THEN <<[on |-> split(method)[1], event |-> split(method)[2], arg |-> method]>>
        ELSE <<>>)
    \o <<[on |-> "client", event |-> method, arg |-> method]>>

RECURSIVE EmissionsOfAll(_)
EmissionsOfAll(methods) ==
  IF methods = <<>> THEN <<>>
  ELSE EmissionsOf(Head(methods)) \o EmissionsOfAll(Tail(methods))

NoAgent(methods) ==
  \A i \in 1..Len(methods) : split(methods[i])[1] \notin domainNames

C30_Step ==
  ghost'.last.a = "events" =>
    /\ ghost'.emitted = EmissionsOfAll(ghost'.last.methods)
    /\ NoAgent(ghost'.last.methods) =>
         /\ ghost'.error = "" /\ inspector'.exit = -1
         /\ session' = session /\ inspector' = inspector

\* C30: each inbound event message Domain.name is emitted on the client
\* first as debugEvent(method, params) and then as the method-scoped event,
\* and fires exactly once under the short name on the Domain agent when such
\* an agent exists; events reach their handlers in the order their frames
\* were received, and events of domains without an agent are ignored without
\* error.
C30_EventsInOrder == [][C30_Step]_vars

\* the same once the REPL is there, for the events whose domain is no
\* property of the inspector other than an agent
C30_EventsInOrderOfDomains ==
  [][(/\ ghost'.last.a = "events" /\ inspector.repl
      /\ \A i \in 1..Len(ghost'.last.methods) :
           split(ghost'.last.methods[i])[1] \notin withoutEmit) => C30_Step]_vars

(***************************************************************************)
(* The flag paused of the inspector (lines 1360, 1399, 1404-1416) and the  *)
(* state of the target.                                                    *)
(***************************************************************************)
\* a Debugger.paused event was handled and no resume verb was given since
TargetHeld == Alive /\ ghost.since = "paused"

\* C31: the session's paused flag (the one that gates whether child output
\* redraws the prompt) is true in every state between the handling of a
\* Debugger.paused event and the next resume verb.
C31_PausedUntilResume == TargetHeld => inspector.paused

\* a Debugger.paused event is handled by a session whose REPL is there
PausedHandled ==
  /\ env'.pauses = env.pauses + 1
  /\ inspector.repl /\ inspector'.exit = -1

C31_Step ==
  /\ PausedHandled => (inspector'.paused /\ tasks'.views # EmptyFn)
  /\ (inspector'.exit = -1 /\ inspector'.repl /\ inspector'.paused) =>
       tasks'.views # EmptyFn
  /\ (inspector.repl /\ inspector.paused /\ ~inspector'.paused) =>
       Cardinality(DOMAIN tasks'.views) < Cardinality(DOMAIN tasks.views)

\* C31, as the code has it: the flag is set when a Debugger.paused event is
\* handled and is true only while an on-pause view is pending; it is
\* cleared when a view has settled, whether or not a resume verb was given.
C31_PausedWhileViewing == [][C31_Step]_vars

\* the target is held at a pause, the view is over and the flag is false:
\* output of the child redraws the prompt
C31_Witness ==
  /\ TargetHeld /\ inspector.repl
  /\ tasks.views = EmptyFn /\ ~inspector.paused
  /\ env.target = "paused" /\ session.selectedFrame # Null

(***************************************************************************)
(* setBreakpoint by name: the scripts known are none, one or both of /a    *)
(* (id 1) and /d/a (id 2); the names a user types are a (in both urls), d  *)
(* (in one) and 1 (in none, and the id of a script).                       *)
(***************************************************************************)
NameD == <<"d">>
NameOne == <<"1">>
NamedLines == {0, 1}

CmdsName ==
  {LineOf("setBreakpoint", name, line) :
     name \in {NameA, NameD, NameOne}, line \in NamedLines}

NextName ==
  \/ ListenHint \/ FetchOk \/ Upgrade \/ AnswerBootstrap
  \/ TargetRespond \/ ScriptParsed
  \/ UserLine(CmdsName)

SpecName == Init /\ [][NextName]_vars

\* the known scripts whose url contains the name
Containing(name) ==
  {id \in DOMAIN session.knownScripts : indexOfFound(session.knownScripts[id].url, name)}

ById(id, line) ==
  \E q \in NewRequests :
    /\ NewRequests = {q}
    /\ q.m = "Debugger.setBreakpoint"
    /\ q.a = [location |-> Location(id, <<>>, line - 1)]

ByUrl(name, line) ==
  \E q \in NewRequests :
    /\ NewRequests = {q}
    /\ q.m = "Debugger.setBreakpointByUrl"
    /\ q.a = [urlRegex |-> escapedPath(name), lineNumber |-> line - 1]

NothingSet ==
  /\ NewRequests = {} /\ client'.lastId = client.lastId
  /\ session'.knownBreakpoints = session.knownBreakpoints

Named(line) ==
  LET matches == Containing(line.x)
  IN IF Cardinality(matches) > 1 \/ line.n <= 0 THEN NothingSet
     ELSE IF matches # {} THEN ById(CHOOSE id \in matches : TRUE, line.n)
     ELSE ByUrl(line.x, line.n)

\* C32: setBreakpoint(name, line) with a string that does not end in '()'
\* sets the breakpoint by {scriptId, lineNumber: line-1} when exactly one
\* known script url contains name, sets it by URL regex when no known script
\* url contains name, and sends no protocol request and leaves
\* knownBreakpoints unchanged when more than one known script url contains
\* name (ambiguous) or when line <= 0.
C32_ByName == [][LineTaken(CmdsName) => Named(ghost'.last.line)]_vars

\* the same for the names that are not the id of a known script
C32_ByNameNotId ==
  [][(/\ LineTaken(CmdsName)
      /\ \A id \in DOMAIN session.knownScripts : idText(id) # ghost'.last.line.x) =>
       Named(ghost'.last.line)]_vars

NamedOrId(line) ==
  LET isId == {id \in DOMAIN session.knownScripts : idText(id) = line.x}
  IN IF isId = {} THEN Named(line)
     ELSE IF line.n <= 0 THEN NothingSet
     ELSE ById(CHOOSE id \in isId : TRUE, line.n)

\* C32, with the ids: a name that is the id of a known script sets the
\* breakpoint in that script, whatever the urls contain; any other name is
\* matched against the urls as stated.
C32_ByNameOrId == [][LineTaken(CmdsName) => NamedOrId(ghost'.last.line)]_vars

\* the name 1 is in no url and is the id of a known script: the breakpoint
\* has been asked for in that script
C32_Witness ==
  /\ ghost.last.a = "line"
  /\ ghost.last.line = LineOf("setBreakpoint", NameOne, 1)
  /\ "1" \in DOMAIN session.knownScripts
  /\ Containing(NameOne) = {}
  /\ \E id \in DOMAIN client.pending :
       /\ client.pending[id].m = "Debugger.setBreakpoint"
       /\ client.pending[id].a = [location |-> Location("1", <<>>, 0)]

(***************************************************************************)
(* Breakpoints set and cleared by name, several of them, with the answers  *)
(* of the target in any order with the lines of the user.                  *)
(***************************************************************************)
MaxBreaks == 4      \* lines of the user that set or clear a breakpoint

ClearLines == {LineOf("clearBreakpoint", NameA, 1)}

CmdsClear ==
  {LineOf("setBreakpoint", NameA, 1), LineOf("setBreakpoint", NameD, 1)}
    \cup ClearLines

BreakLine ==
  /\ Alive
  /\ inspector.repl /\ ~inspector.stdinPaused
  /\ session.replEval = "controlEval"
  /\ env.dlines < MaxBreaks
  /\ \E line \in CmdsClear :
       Turn(replLine([Cur EXCEPT !.e.dlines = @ + 1, !.g.out = "", !.g.typed = line],
                     line),
            [a |-> "line", line |-> line])

NextClear ==
  \/ ListenHint \/ FetchOk \/ Upgrade \/ AnswerBootstrap
  \/ TargetRespond \/ ScriptParsed
  \/ BreakLine

SpecClear == Init /\ [][NextClear]_vars

\* the entries clearBreakpoint(url, line) may select
Matching(url, line) ==
  LET bps == session.knownBreakpoints
  IN {i \in 1..Len(bps) :
        /\ bps[i].location.scriptId \in DOMAIN session.knownScripts
        /\ indexOfFound(session.knownScripts[bps[i].location.scriptId].url, url)
        /\ bps[i].location.lineNumber + 1 = line}

\* the request the target answers in this step
Answering == client.pending[Min(DOMAIN client.pending)]

RemoveAnswered ==
  /\ ghost'.last.a = "respond"
  /\ Answering.m = "Debugger.removeBreakpoint"

Oids(bps) == {bps[i].oid : i \in 1..Len(bps)}

C33_Step ==
  /\ LineTaken(ClearLines) =>
       LET line == ghost'.last.line
           found == Matching(line.x, line.n)
       IN IF found = {}
          THEN /\ ghost'.out = "Could not find breakpoint"
               /\ NothingSet
               /\ session'.knownScripts = session.knownScripts
          ELSE /\ \E q \in NewRequests :
                    /\ NewRequests = {q}
                    /\ q.m = "Debugger.removeBreakpoint"
                    /\ q.a = [breakpointId |->
                                session.knownBreakpoints[Min(found)].breakpointId]
                    /\ q.k.oid = session.knownBreakpoints[Min(found)].oid
               /\ session'.knownBreakpoints = session.knownBreakpoints
  /\ Len(session'.knownBreakpoints) < Len(session.knownBreakpoints) =>
       RemoveAnswered /\ ghost'.last.ok
  /\ RemoveAnswered =>
       IF ghost'.last.ok
       THEN Answering.k.oid \notin Oids(session'.knownBreakpoints)
       ELSE session'.knownBreakpoints = session.knownBreakpoints

\* C33: clearBreakpoint(url, line) selects the first knownBreakpoints entry
\* whose script url contains url and whose lineNumber+1 equals line; if
\* there is none it prints a diagnostic, sends no request and changes
\* nothing; otherwise it sends removeBreakpoint for that entry's
\* breakpointId and the entry is removed from knownBreakpoints only after
\* that request has succeeded.
C33_ClearFirstMatch == [][C33_Step]_vars

\* two entries match, the first has been asked to be removed and is still
\* in the list
C33_Witness ==
  /\ ghost.last.a = "line" /\ ghost.last.line \in ClearLines
  /\ Len(session.knownBreakpoints) = 2
  /\ Cardinality(Matching(NameA, 1)) = 2
  /\ \E id \in DOMAIN client.pending :
       /\ client.pending[id].m = "Debugger.removeBreakpoint"
       /\ client.pending[id].k.oid = session.knownBreakpoints[1].oid

C39_Step ==
  (RemoveAnswered /\ ghost'.last.ok) =>
    Oids(session.knownBreakpoints) \ {Answering.k.oid}
      \subseteq Oids(session'.knownBreakpoints)

\* C39: clearBreakpoint never removes from knownBreakpoints an entry other
\* than the one it matched, also when the matched entry is no longer in the
\* list (a second clearBreakpoint for the same breakpoint, or a restart) by
\* the time the removeBreakpoint response arrives.
C39_OnlyMatchedRemoved == [][C39_Step]_vars

(***************************************************************************)
(* watch and unwatch (lines 1181-1192) on the list of the watchers.  The   *)
(* expressions watched are a, b and 1; unwatch is given a text that may be *)
(* watched, the text of a number, a text that is neither, or a number.     *)
(***************************************************************************)
MaxWatch == 3       \* watchers in the list

Watched == {<<"a">>, <<"b">>, <<"1">>}

UnwatchArgs ==
  {String(x) : x \in Watched \cup {<<"0">>, <<"7">>, <<"x">>}}
    \cup {Number(0), Number(1)}

WatchInputs ==
  {[op |-> "init", watchedExpressions |-> list, expr |-> expr, out |-> <<>>] :
     list \in SeqsUpTo(Watched, MaxWatch), expr \in UnwatchArgs}

InitWatch ==
  /\ client \in WatchInputs
  /\ inspector = Null /\ session = Null /\ tasks = Null /\ env = Null
  /\ ghost = [last |-> [a |-> "init"]]

Watch ==
  /\ client.op = "init" /\ client.expr.t = "string"
  /\ CodecStep([client EXCEPT !.op = "watch",
                              !.out = watch(client.watchedExpressions, client.expr.x)])

Unwatch ==
  /\ client.op = "init"
  /\ CodecStep([client EXCEPT !.op = "unwatch",
                              !.out = unwatch(client.watchedExpressions, client.expr)])

NextWatch ==
  \/ Watch
  \/ Unwatch

SpecWatch == InitWatch /\ [][NextWatch]_vars

Without(list, i) == SubSeq(list, 1, i - 1) \o SubSeq(list, i + 1, Len(list))

\* where the text is watched
WatchedAt(c) ==
  {i \in 1..Len(c.watchedExpressions) :
     c.expr.t = "string" /\ c.watchedExpressions[i] = c.expr.x}

\* the index the argument is the number of, if it is one of the list
IndexGiven(c) ==
  {i \in 1..Len(c.watchedExpressions) : toNumber(c.expr) = Num(i - 1)}

Appended(c) == c.out = Append(c.watchedExpressions, c.expr.x)

Unwatched(c) ==
  /\ WatchedAt(c) # {} => c.out = Without(c.watchedExpressions, Min(WatchedAt(c)))
  /\ (WatchedAt(c) = {} /\ IndexGiven(c) # {}) =>
       c.out = Without(c.watchedExpressions, Min(IndexGiven(c)))
  /\ (WatchedAt(c) = {} /\ toNumber(c.expr).nan) => c.out = c.watchedExpressions
  /\ Len(c.out) >= Len(c.watchedExpressions) - 1

\* C34: watch(expr) appends expr to the end of the watcher list (duplicates
\* allowed, order preserved); unwatch(x) removes the first entry equal to x
\* if there is one, otherwise removes the entry at index x if x parses as a
\* number, and otherwise leaves the list unchanged; it never removes more
\* than one entry.
C34_WatchList ==
  /\ client.op = "watch" => Appended(client)
  /\ client.op = "unwatch" => Unwatched(client)

\* the same but for a text that is neither watched nor a number
C34_WatchListOfKnown ==
  /\ client.op = "watch" => Appended(client)
  /\ (client.op = "unwatch" /\ ~(WatchedAt(client) = {} /\ toNumber(client.expr).nan)) =>
       Unwatched(client)

(***************************************************************************)
(* Watchers that cannot be evaluated                                       *)
(***************************************************************************)
CmdsWatchers ==
  {Line("watchers"), Line("cont")} \cup {LineOf("watch", x, 0) : x \in Exprs}

NextWatchers ==
  \/ ListenHint \/ FetchOk \/ Upgrade \/ AnswerBootstrap
  \/ PeerClose
  \/ TargetRespond \/ PausedEvent
  \/ UserLine(CmdsWatchers)

SpecWatchers == Init /\ [][NextWatchers]_vars

\* The target answers the evaluation of a watcher in this step.
WatcherAnswered ==
  /\ ghost'.last.a = "respond"
  /\ client.pending # EmptyFn
  /\ client.pending[Min(DOMAIN client.pending)].k.k = "watcher"

\* The lines of values, over the list as it is after the step
LinesOf(values) ==
  \A i \in 1..Len(values) :
    /\ i <= Len(ghost'.watchers.lines)
    /\ ghost'.watchers.lines[i] =
         [idx |-> i - 1, expr |-> session'.watchedExpressions[i], value |-> values[i]]

C35_Answered ==
  LET q == client.pending[Min(DOMAIN client.pending)]
      p == q.k.p
      f == tasks.formats[p]
      value == IF ghost'.last.ok
               THEN [t |-> "object", v |-> TargetResult(q)]
               ELSE String(<<"<", unpackError(TargetError).message, ">">>)
      values == [f.values EXCEPT ![q.k.idx] = value]
      v == f.then.v
  IN (WatcherAnswered /\ p \in DOMAIN tasks.formats) =>
       /\ inspector'.exit = -1
       /\ IF f.left > 1
          THEN /\ p \in DOMAIN tasks'.formats
               /\ tasks'.formats[p].values = values
               /\ tasks'.formats[p].left = f.left - 1
          ELSE /\ p \notin DOMAIN tasks'.formats
               /\ ghost'.watchers.then = f.then.k
               /\ LinesOf(values)
               /\ (f.then.k = "view" /\ v \in DOMAIN tasks.views) =>
                    IF tasks.views[v] > 1
                    THEN v \in DOMAIN tasks'.views /\ tasks'.views[v] = tasks.views[v] - 1
                    ELSE v \notin DOMAIN tasks'.views /\ ~inspector'.paused
               /\ f.then.k = "print" => ghost'.out = "watchers"

\* The watchers verb is typed while no target is connected.
WatchersTypedUnconnected ==
  /\ ghost'.last.a = "line"
  /\ ghost'.last.line = Line("watchers")
  /\ session.replEval = "controlEval"
  /\ ~client.socket
  /\ session.watchedExpressions # <<>>

C35_Unconnected ==
  WatchersTypedUnconnected =>
    /\ inspector'.exit = -1
    /\ ghost'.out = "watchers"
    /\ Len(ghost'.watchers.lines) = Len(session.watchedExpressions)
    /\ LinesOf([i \in 1..Len(session.watchedExpressions) |->
                  String(<<"<", NotConnected.message, ">">>)])

\* C35: when watchers are evaluated, by the watchers verb or for the view of
\* a pause, a watcher whose evaluation fails is rendered as the placeholder
\* <error message>; the other watchers are rendered in list order with
\* their indices, and the view of the pause completes.
C35_FailedWatcherShown == [][C35_Answered /\ C35_Unconnected]_vars

\* The view of a pause has shown two watchers, the first of which could not
\* be evaluated, and the REPL has resumed.
C35_Witness ==
  /\ ghost.watchers.then = "view"
  /\ Len(ghost.watchers.lines) >= 2
  /\ ghost.watchers.lines[1].value.t = "string"
  /\ ghost.watchers.lines[2].value.t = "object"
  /\ tasks.views = EmptyFn /\ tasks.formats = EmptyFn
  /\ inspector.exit = -1 /\ ~inspector.paused /\ ~inspector.stdinPaused

(***************************************************************************)
(* A stream of whole frames, delivered in chunks                           *)
(***************************************************************************)
MaxSplit == 5       \* a chunk has at most this many bytes, or all that is left, or all but one
MaxChunks == 3      \* chunks a stream is delivered in
MaxStream == 2      \* frames of a stream
LongLength == kMaxSingleBytePayloadLength + 1   \* the shortest payload with a 2-byte length field

\* An event in few bytes, and the same event with white space up to
\* LongLength bytes
ShortText == <<OpenBrace, 88, CloseBrace>>
LongText == <<OpenBrace, 88>> \o [i \in 1..(LongLength - 3) |-> 32] \o <<CloseBrace>>

StreamTexts ==
  {ShortText, LongText}
    \cup {responseText(PeerAnswer(id, client.pending[id].a)) : id \in FutureIds}

Streams == SeqsUpTo(StreamTexts, MaxStream) \ {<<>>}

\* the peer writes a stream of whole frames
PeerSends ==
  /\ Alive /\ Connected /\ BootIds = {} /\ ~Held
  /\ ghost.stream.sent = <<>>
  /\ \E texts \in Streams :
       Turn([Cur EXCEPT
               !.e.rest = [conn |-> env.conns,
                           bytes |-> Flatten([i \in 1..Len(texts) |-> textFrame(texts[i])])],
               !.g.stream.sent = texts],
            [a |-> "sends"])

Cuts(bytes) ==
  IF ghost.stream.chunks + 1 >= MaxChunks THEN {Len(bytes)}
  ELSE {k \in (1..MaxSplit) \cup {Len(bytes) - 1, Len(bytes)} : k >= 1 /\ k <= Len(bytes)}

\* the transport delivers the next bytes of the stream: socket.on('data')
Deliver ==
  /\ Alive /\ Connected /\ Held
  /\ \E k \in Cuts(env.rest.bytes) :
       LET bytes == env.rest.bytes
           w == Client_handleChunk(
                  [Cur EXCEPT !.g.error = "",
                              !.g.stream.chunks = @ + 1,
                              !.e.rest.bytes = SubSeq(bytes, k + 1, Len(bytes))],
                  SubSeq(bytes, 1, k))
       IN Turn([w EXCEPT !.g.stream.got = @ \o w.g.dispatched], [a |-> "deliver"])

NextSplit ==
  \/ WireConnect \/ WireUpgrade \/ WireBootstrap
  \/ WireCall
  \/ PeerSends \/ Deliver

SpecSplit == InitClient /\ [][NextSplit]_vars

IsPrefix(s, t) == Len(s) <= Len(t) /\ s = SubSeq(t, 1, Len(s))

Dispatched ==
  /\ ghost'.error = ""
  /\ inspector'.exit = -1
  /\ IsPrefix(ghost'.stream.got, ghost'.stream.sent)
  /\ env'.rest.bytes = <<>> => ghost'.stream.got = ghost'.stream.sent

\* C36: what the client dispatches depends on the bytes received only, not
\* on the chunks they come in: however a stream of whole frames is cut, the
\* same messages are dispatched in the same order and no error is raised.
C36_SplitIndependent == [][ghost'.last.a = "deliver" => Dispatched]_vars

\* what is left of a buffer once the whole frames at its head are taken
RECURSIVE Leftover(_)
Leftover(buffer) ==
  IF Len(buffer) < 2 THEN buffer
  ELSE LET long == buffer[2] = kTwoBytePayloadLengthField
           total == IF long
                    THEN IF Len(buffer) < 4 THEN Len(buffer) + 1
                         ELSE 4 + buffer[3] * 256 + buffer[4]
                    ELSE 2 + buffer[2]
       IN IF Len(buffer) < total THEN buffer
          ELSE Leftover(SubSeq(buffer, total + 1, Len(buffer)))

\* the chunk ends on the third byte of a frame with a 2-byte length field
EndsInLength ==
  LET k == Len(env.rest.bytes) - Len(env'.rest.bytes)
      left == Leftover(client.unprocessed \o SubSeq(env.rest.bytes, 1, k))
  IN Len(left) = 3 /\ left[2] = kTwoBytePayloadLengthField

C36_SplitIndependentOfLength ==
  [][(ghost'.last.a = "deliver" /\ ~EndsInLength) => Dispatched]_vars

(***************************************************************************)
(* Debugger.paused and the creation of the REPL                            *)
(***************************************************************************)
\* A Debugger.paused event is handled in this step.
PausedArrives == env'.pauses > env.pauses

ViewStarted ==
  /\ inspector'.exit = -1
  /\ session'.selectedFrame # Null
  /\ tasks'.views # EmptyFn
  /\ inspector'.paused

\* C37: handling Debugger.paused never fails because the REPL does not exist
\* yet: however the answers to the bootstrap, ready, the creation of the
\* REPL and the first Debugger.paused interleave, the view of the pause is
\* started and the session does not end with an internal error.
C37_PausedAfterRepl == [][PausedArrives => ViewStarted]_vars

C37_PausedOnceReplExists == [][(PausedArrives /\ inspector.repl) => ViewStarted]_vars

(***************************************************************************)
(* The children of a session                                               *)
(***************************************************************************)
MaxSpawns == 3      \* children spawned when restart is given during a spawn

\* The user restarts while the child of the run before has not yet said
\* where it listens.  A child that has been replaced stays silent.
RestartWhileSpawning ==
  /\ Alive
  /\ inspector.repl /\ ~inspector.stdinPaused
  /\ session.replEval = "controlEval"
  /\ tasks.run.phase = "spawn"
  /\ env.spawned < MaxSpawns /\ env.cmds < MaxCmds
  /\ Turn(replLine([Cur EXCEPT !.e.cmds = @ + 1,
                               !.g.out = "",
                               !.g.typed = Line("restart"),
                               !.g.sinceClaim = "cleared"], Line("restart")),
          [a |-> "line", line |-> Line("restart")])

NextSpawn ==
  \/ ListenHint \/ FetchOk \/ FetchFail \/ Timer \/ Upgrade \/ AnswerBootstrap
  \/ SocketClose
  \/ UserLine(CmdsQuit) \/ RestartWhileSpawning \/ Signal

SpecSpawn == Init /\ [][NextSpawn]_vars

\* C38: at any time at most one spawned child is alive, and a live child is
\* the one the session refers to (this.child), so that kill, restart and
\* exit kill it; a child that has not yet said where it listens is not
\* counted as unreferenced here.
C38_OneChildReferenced ==
  /\ Cardinality(env.children) <= 1
  /\ tasks.run.phase # "spawn" => env.children \subseteq {inspector.child}

(***************************************************************************)
(* The connection closes in debug mode                                     *)
(***************************************************************************)
\* the close of the connection is handled while the REPL is in debug mode
ClosesInDebug ==
  /\ ghost'.last.a = "close"
  /\ inspector.repl
  /\ session.replEval = "debugEval"

C40_Close ==
  ClosesInDebug =>
    /\ ControlMode(session')
    /\ RliBuffer(session') = ControlBuffer(session)
    /\ DebugBuffer(session') = RliBuffer(session)
    /\ inspector'.exit = -1

\* prompt, evaluator and callback say the same mode
ModesAgree(s) ==
  /\ (s.prompt = "> ") <=> (s.replEval = "debugEval")
  /\ (s.replEval = "debugEval") <=> s.exitDebugRepl

\* C40: when the connection closes while the REPL is in debug mode, the
\* session leaves debug mode: evaluator, prompt and history are those of
\* control mode afterwards; and in every state the prompt is '> ' exactly
\* when the debug evaluator is installed, exactly when a callback that leaves
\* debug mode is registered.
C40_ClosedInDebug == [][C40_Close /\ ModesAgree(session) /\ ModesAgree(session')]_vars

\* The connection was closed in debug mode, after a line was typed there:
\* the REPL is back in control mode and the debug history is kept.
C40_Witness ==
  /\ ghost.last.a = "close"
  /\ inspector.repl /\ inspector.exit = -1
  /\ ControlMode(session)
  /\ DebugBuffer(session) # <<>>
====
